---- MODULE Spec2Model ----
(***************************************************************************)
(* Debug Buddy: the page-side throttle (content script) and the background *)
(* service worker (ingestion, persisted log, analysis queue).              *)
(*                                                                         *)
(* Both contexts are single-threaded and cooperative: a handler runs       *)
(* without interruption up to its next await.  Every action below is one   *)
(* such run: the code from one await point (or from the handler's entry)   *)
(* to the next.                                                            *)
(***************************************************************************)
EXTENDS Integers, Sequences, FiniteSets, TLC

VARIABLES
  now,               \* Date.now(), the wall clock shared by both contexts
  storedErrors,      \* chrome.storage.local 'errors' (serialized copies)
  apiKey,            \* chrome.storage.sync 'apiKey'
  heap,              \* the errorRecord objects of the background context
  errorCache,        \* Map id -> errorRecord (a reference into heap)
  analysisQueue,     \* array of errorRecord references
  isProcessingQueue,
  lastApiCallTime,
  captures,          \* handleErrorCaptured calls suspended in saveErrorToStorage
  workers,           \* processQueue calls that have not returned
  clears,            \* clearErrors calls suspended at storage.set
  notes,             \* what broadcastToSidePanel has sent, in order
  lastResponse,      \* the value the last finished handler resolved with
  lastErrorId,       \* history: the id the last handleErrorCaptured call computed
  fetchStarts,       \* history: start times of the last two external calls
  removed,           \* history: ids the cap or a clear has taken out of the log
  nCaptured,         \* history: number of ERROR_CAPTURED messages handled
  nResubmitted,      \* history: number of ANALYZE_ERROR messages handled
  nCleared,          \* history: number of CLEAR_ERRORS messages handled
  errorCount,        \* content script: forwards counted in the current window
  lastErrorReset,    \* content script: when the window was last reset
  recentErrors,      \* content script: Map errorKey -> time of the last forward
  channel,           \* ERROR_CAPTURED messages sent and not yet handled
  lastSignal,        \* history: the last sendErrorToBackground call and its outcome
  lastForward,       \* history: errorKey -> time of its last forward, never pruned
  window,            \* history: the rate window as the clock defines it
  observed,          \* history: forwards seen in one 60 s interval
  nTicks,            \* history: clock steps taken while the page is followed alone
  pageSaw,           \* how the page's last call into an interceptor ended
  domains,           \* chrome.storage.sync 'domains'
  enabled,           \* chrome.storage.sync 'enabled'
  host,              \* window.location.hostname of the page
  injected,          \* window.__debugBuddyInjected
  bootstrap,         \* where the page's content script and its initialize() are
  gateAnswer,        \* what checkDomainAllowed resolved with for this page
  isEnabledForDomain,
  installed,         \* the interceptors installed in the page
  injections,        \* history: evaluations of the script file in this page, and
                     \* the wrappers or listeners each capture has put in place
  panel              \* the side panel: how far initialize() has come, the
                     \* list GET_ERRORS gave it and the notifications sent
                     \* before its listener was registered

bgVars == <<storedErrors, apiKey, heap, errorCache, analysisQueue,
            isProcessingQueue, lastApiCallTime, captures, workers, clears,
            notes, lastResponse, lastErrorId, fetchStarts, removed, nCaptured,
            nResubmitted, nCleared>>

gateVars == <<domains, enabled, host, injected, bootstrap, gateAnswer,
              isEnabledForDomain, installed, injections, panel>>

throttleVars == <<errorCount, lastErrorReset, recentErrors, channel, lastSignal,
                  lastForward, window, observed, nTicks, pageSaw>>

pageVars == <<throttleVars, gateVars>>

vars == <<now, bgVars, pageVars>>

----------------------------------------------------------------------------
(* Program constants *)

RATE_LIMIT_MS == 1000
MAX_STORED_ERRORS == 100
MAX_ERRORS_PER_MINUTE == 50
DEBOUNCE_MS == 100
WINDOW_MS == 60000           \* content.js line 618
RECENT_MAX == 100            \* content.js line 633
RECENT_HORIZON_MS == 10000   \* content.js line 634

(* Bounds of the model *)

StartTime == 5000        \* Date.now() when the service worker starts
MaxClock == 1000         \* the clock is followed for this long after StartTime
MaxCaptured == 2         \* ERROR_CAPTURED messages
MaxResubmitted == 1      \* ANALYZE_ERROR messages
MaxCleared == 1          \* CLEAR_ERRORS messages
MaxMessages == 2         \* messages of all three kinds together
Preloaded == 99          \* records left in the log by an earlier run of the worker

----------------------------------------------------------------------------
(* Strings are sequences of UTF-16 code units. *)

Dash == <<45>>

\* String(n) for a non-negative integer below 100
NumberToString(n) ==
  IF n < 10 THEN <<48 + n>> ELSE <<48 + (n \div 10), 48 + (n % 10)>>

ErrorTypes == {<<101>>}                      \* "e"
Messages == {<<65, 97>>, <<65, 98>>}         \* "Aa", "Ab"
Filenames == {<<102>>}                       \* "f"
Linenos == {1}

ErrorInputs ==
  [type : ErrorTypes, message : Messages, filename : Filenames, lineno : Linenos]

----------------------------------------------------------------------------
(* generateErrorId.  A 32-bit integer is kept as two 16-bit halves         *)
(* <<hi, lo>> of its two's complement bit pattern.                         *)

Half == 65536

\* hash = ((hash << 5) - hash) + char; hash = hash & hash   (int32 wrap)
HashStep(h, c) ==
  LET t == 31 * h[2] + c
  IN  <<(31 * h[1] + (t \div Half)) % Half, t % Half>>

RECURSIVE HashFrom(_, _, _)
HashFrom(h, s, i) ==
  IF i > Len(s) THEN h ELSE HashFrom(HashStep(h, s[i]), s, i + 1)

\* Math.abs of the int32 with bit pattern h
MathAbs(h) ==
  IF h[1] < Half \div 2 THEN h
  ELSE IF h[2] = 0 THEN <<(Half - h[1]) % Half, 0>>
  ELSE <<Half - 1 - h[1], Half - h[2]>>

\* "undefined": what a template literal makes of a property that is not there
Undefined == <<117, 110, 100, 101, 102, 105, 110, 101, 100>>

\* ${errorData.f}
FieldText(errorData, f) ==
  IF f \notin DOMAIN errorData THEN Undefined
  ELSE IF f = "lineno" THEN NumberToString(errorData[f])
  ELSE errorData[f]

\* a message without payload: errorData is undefined
NoPayload == [payload |-> "undefined"]

\* line 161: reading a property of undefined throws a TypeError
ThrowsTypeError(errorData) == errorData = NoPayload

ContentOf(errorData) ==
  FieldText(errorData, "type") \o Dash \o FieldText(errorData, "message") \o Dash \o
  FieldText(errorData, "filename") \o Dash \o FieldText(errorData, "lineno")

\* `error_${Math.abs(hash)}_${Date.now()}`: the two numbers, in order
generateErrorId(errorData, t) ==
  <<MathAbs(HashFrom(<<0, 0>>, ContentOf(errorData), 1)), t>>

----------------------------------------------------------------------------
(* Helpers on the stored list and on Map *)

Take(s, n) == SubSeq(s, 1, IF Len(s) < n THEN Len(s) ELSE n)

RemoveAt(s, i) == SubSeq(s, 1, i - 1) \o SubSeq(s, i + 1, Len(s))

IdsOf(s) == {s[i].id : i \in 1 .. Len(s)}

ReplaceAt(s, i, x) == [s EXCEPT ![i] = x]

\* JSON copy of an errorRecord, as chrome.storage and sendMessage make it
Copy(hp, o) == [id |-> hp[o].id, status |-> hp[o].status,
                analysis |-> hp[o].analysis]

\* Map.prototype.set
MapSet(m, k, v) == [x \in DOMAIN m \cup {k} |-> IF x = k THEN v ELSE m[x]]

EmptyMap == [x \in {} |-> 0]

\* broadcastToSidePanel
\* a notification that is never sent
Broadcast_Silent(type, id, status) == notes

\* notifications that reach the observers newest first
Broadcast_NewestFirst(type, id, status) ==
  <<[type |-> type, id |-> id, status |-> status]>> \o notes

Broadcast(type, id, status) ==
  Append(notes, [type |-> type, id |-> id, status |-> status])

----------------------------------------------------------------------------
(* Initial state: the service worker has just started.  Its in-memory      *)
(* state is fresh; chrome.storage survives from earlier runs.              *)

\* errorRecord.analysis: null (line 133), the parsed answer of the service
\* (line 309), or the object built by the catch block (lines 325-330)
NullAnalysis == [kind |-> "null", error |-> "", explanation |-> ""]
ParsedAnalysis == [kind |-> "parsed", error |-> "", explanation |-> "explanation"]
FailedAnalysis(reason) ==
  [kind |-> "failure", error |-> reason,
   explanation |-> "Failed to analyze error. Please check your API key and try again."]

OldRecord(i) == [id |-> <<<<0, i>>, 0>>, status |-> "completed", analysis |-> ParsedAnalysis]

OldLog(n) == [i \in 1 .. n |-> OldRecord(i)]

\* the default written by the installer and by saveSettings for an empty input
YOUR_API_KEY_HERE ==
  <<89, 79, 85, 82, 95, 65, 80, 73, 95, 75, 69, 89, 95, 72, 69, 82, 69>>

\* a key the user typed, "sk-ant" (keys are strings of code units)
SampleKey == <<115, 107, 45, 97, 110, 116>>

BgInitWith(log, keys) ==
  /\ storedErrors = log
  /\ apiKey \in keys
  /\ heap = <<>>
  /\ errorCache = EmptyMap
  /\ analysisQueue = <<>>
  /\ isProcessingQueue = FALSE
  /\ lastApiCallTime = 0
  /\ captures = <<>>
  /\ workers = <<>>
  /\ clears = 0
  /\ notes = <<>>
  /\ lastResponse = [kind |-> "none", id |-> <<>>]
  /\ lastErrorId = <<>>
  /\ fetchStarts = <<>>
  /\ removed = {}
  /\ nCaptured = 0
  /\ nResubmitted = 0
  /\ nCleared = 0

BgInit(log) == BgInitWith(log, {SampleKey, YOUR_API_KEY_HERE})

----------------------------------------------------------------------------
(* processQueue *)

\* a loop that never sleeps
RateLimitWait_NoSleep(t, last) == 0

\* lines 236-242: how long the loop sleeps before analyzeError
RateLimitWait(t, last) ==
  IF t - last < RATE_LIMIT_MS THEN RATE_LIMIT_MS - (t - last) ELSE 0

\* the guards on isProcessingQueue left out
StartsWorker_Unguarded(flag, q) == Len(q) # 0

\* lines 215 and 226: whether a call of queueErrorAnalysis starts a worker
StartsWorker(flag, q) == ~flag /\ ~(flag \/ Len(q) = 0)

\* history kept in the objects: the ordinal of an object among those that
\* have reached the stage (0: not yet).  The stages are queuedAt (pushed on
\* analysisQueue), startedAt (analyzeError entered) and fetchedAt (fetch
\* called).
Ordinal(hp, stage) == Cardinality({x \in 1 .. Len(hp) : hp[x][stage] > 0}) + 1

\* the assignment of line 257 left out
MarkAnalyzing_Skipped(hp, o) == hp

\* line 257: analyzeError marks the record before its first await
MarkAnalyzing(hp, o) ==
  [hp EXCEPT ![o].status = "analyzing", ![o].startedAt = Ordinal(hp, "startedAt")]

NewWorker(pc, o, wakeAt) ==
  [pc |-> pc, obj |-> o, wakeAt |-> wakeAt, write |-> <<>>]

\* a loop that takes the newest entry (pop instead of shift)
LoopTurn_FlagStuck(q, hp, last) ==
  IF Len(q) = 0
  THEN [queue |-> q, heap |-> hp, flag |-> TRUE, worker |-> <<>>]
  ELSE LET o == Head(q)
           waitTime == RateLimitWait(now, last)
       IN  IF waitTime > 0
           THEN [queue |-> Tail(q), heap |-> hp, flag |-> TRUE,
                 worker |-> <<NewWorker("sleep", o, now + waitTime)>>]
           ELSE [queue |-> Tail(q), heap |-> MarkAnalyzing(hp, o), flag |-> TRUE,
                 worker |-> <<NewWorker("update1_get", o, 0)>>]

LoopTurn_Lifo(q, hp, last) ==
  IF Len(q) = 0
  THEN [queue |-> q, heap |-> hp, flag |-> FALSE, worker |-> <<>>]
  ELSE LET o == q[Len(q)]
           rest == SubSeq(q, 1, Len(q) - 1)
           waitTime == RateLimitWait(now, last)
       IN  IF waitTime > 0
           THEN [queue |-> rest, heap |-> hp, flag |-> TRUE,
                 worker |-> <<NewWorker("sleep", o, now + waitTime)>>]
           ELSE [queue |-> rest, heap |-> MarkAnalyzing(hp, o), flag |-> TRUE,
                 worker |-> <<NewWorker("update1_get", o, 0)>>]

\* One turn of `while (analysisQueue.length > 0)` up to its first await, or
\* the exit of the loop: the next values of the queue, the heap, the flag
\* and this worker (<<>> when processQueue returns).
LoopTurn(q, hp, last) ==
  IF Len(q) = 0
  THEN [queue |-> q, heap |-> hp, flag |-> FALSE, worker |-> <<>>]
  ELSE LET o == Head(q)
           waitTime == RateLimitWait(now, last)
       IN  IF waitTime > 0
           THEN [queue |-> Tail(q), heap |-> hp, flag |-> TRUE,
                 worker |-> <<NewWorker("sleep", o, now + waitTime)>>]
           ELSE [queue |-> Tail(q), heap |-> MarkAnalyzing(hp, o), flag |-> TRUE,
                 worker |-> <<NewWorker("update1_get", o, 0)>>]

\* queueErrorAnalysis(errorRecord), with the synchronous start of processQueue
QueueErrorAnalysis(o, hp0) ==
  LET q == Append(analysisQueue, o)
      hp == [hp0 EXCEPT ![o].queuedAt = Ordinal(hp0, "queuedAt")]
  IN  IF StartsWorker(isProcessingQueue, q)
      THEN LET t == LoopTurn(q, hp, lastApiCallTime)
           IN  [queue |-> t.queue, heap |-> t.heap, flag |-> t.flag,
                workers |-> workers \o t.worker]
      ELSE [queue |-> q, heap |-> hp, flag |-> isProcessingQueue,
            workers |-> workers]

\* updateErrorInStorage: errors.map(e => e.id === errorRecord.id ? errorRecord : e)
UpdatedErrors(errors, rec) ==
  [i \in 1 .. Len(errors) |-> IF errors[i].id = rec.id THEN rec ELSE errors[i]]

\* saveErrorToStorage: [errorRecord, ...errors].slice(0, 100)
SavedErrors(errors, rec) == Take(<<rec>> \o errors, MAX_STORED_ERRORS)

----------------------------------------------------------------------------
(* The clock *)

TickWithin(d, limit) ==
  /\ now + d <= StartTime + limit
  /\ now' = now + d

Tick(d) == TickWithin(d, MaxClock)

----------------------------------------------------------------------------
(* handleErrorCaptured *)

Response(kind, id) == [kind |-> kind, id |-> id]

\* origin, queuedAt, startedAt, fetchedAt, httpStatus, atClear and submittedAs
\* are history, not properties of errorRecord
NewRecord(id, origin) ==
  [id |-> id, status |-> "pending", analysis |-> NullAnalysis, origin |-> origin,
   queuedAt |-> 0, startedAt |-> 0, fetchedAt |-> 0, httpStatus |-> 0,
   atClear |-> "absent", submittedAs |-> "pending", waitingAtClear |-> FALSE,
   timestamp |-> 0]

\* the duplicate check left out
IsDuplicate_Never(cache, id) == FALSE

\* line 124: the duplicate check against the working set
IsDuplicate(cache, id) == id \in DOMAIN cache

\* lines 116-142: from the entry of the handler to the get of saveErrorToStorage
ErrorCaptured(errorData) ==
  LET errorId == generateErrorId(errorData, now)
      o == Len(heap) + 1
  IN  /\ nCaptured' = nCaptured + 1
      /\ IF ThrowsTypeError(errorData)
         THEN \* the promise of handleMessage rejects; sendResponse is not called
              /\ lastResponse' = Response("rejected", <<>>)
              /\ UNCHANGED <<lastErrorId, heap, errorCache, captures>>
         ELSE IF IsDuplicate(errorCache, errorId)
         THEN /\ lastResponse' = Response("duplicate", <<>>)
              /\ lastErrorId' = errorId
              /\ UNCHANGED <<heap, errorCache, captures>>
         ELSE \* line 135: timestamp: Date.now() comes after ...errorData
              /\ heap' = Append(heap, [NewRecord(errorId, "captured") EXCEPT
                                         !.timestamp = now])
              /\ errorCache' = MapSet(errorCache, errorId, o)
              /\ captures' = Append(captures, [pc |-> "get", obj |-> o,
                                               write |-> <<>>, evicted |-> {}])
              /\ lastErrorId' = errorId
              /\ UNCHANGED lastResponse
      /\ UNCHANGED <<storedErrors, apiKey, analysisQueue, isProcessingQueue,
                     lastApiCallTime, workers, clears, notes, fetchStarts,
                     removed, nResubmitted, nCleared>>

\* lines 175-180: the get resolves; the new list is built and set is called
SaveGet(c) ==
  LET h == captures[c]
      updatedErrors == SavedErrors(storedErrors, Copy(heap, h.obj))
  IN  /\ h.pc = "get"
      /\ captures' = ReplaceAt(captures, c,
                        [h EXCEPT !.pc = "set", !.write = updatedErrors,
                                  !.evicted = IdsOf(storedErrors) \ IdsOf(updatedErrors)])
      /\ UNCHANGED <<storedErrors, apiKey, heap, errorCache, analysisQueue,
                     isProcessingQueue, lastApiCallTime, workers, clears, notes,
                     lastResponse, fetchStarts, removed, lastErrorId, nCaptured,
                     nResubmitted, nCleared>>

\* lines 180, 144-154: the set resolves; NEW_ERROR, queueErrorAnalysis, return
SaveSet(c) ==
  LET h == captures[c]
      r == QueueErrorAnalysis(h.obj, heap)
  IN  /\ h.pc = "set"
      /\ storedErrors' = h.write
      /\ removed' = removed \cup h.evicted
      /\ notes' = Broadcast("NEW_ERROR", heap[h.obj].id, "pending")
      /\ analysisQueue' = r.queue
      /\ heap' = r.heap
      /\ isProcessingQueue' = r.flag
      /\ workers' = r.workers
      /\ captures' = RemoveAt(captures, c)
      /\ lastResponse' = Response("captured", heap[h.obj].id)
      /\ UNCHANGED <<apiKey, errorCache, lastApiCallTime, clears, fetchStarts,
                     lastErrorId, nCaptured, nResubmitted, nCleared>>

----------------------------------------------------------------------------
(* processQueue and analyzeError, one action per await *)

\* a key the user never stored reads as undefined, written <<>> here
ApiKeyMissing_EmptyOnly(key) == key = <<>>

\* line 269: !apiKey || apiKey === 'YOUR_API_KEY_HERE'
ApiKeyMissing(key) == key = <<>> \/ key = YOUR_API_KEY_HERE

\* line 270: the message of the Error thrown for a missing key
KeyNotConfigured ==
  "API key not configured. Please add your Anthropic API key in settings."

\* What fetch can do: reject, or resolve with a response whose body may carry
\* error.message (message "" when it does not, or when it is not JSON).
Rejected(message) == [kind |-> "rejected", status |-> 0, message |-> message]
HttpResponse(status, message) ==
  [kind |-> "response", status |-> status, message |-> message]

FetchOutcomes ==
  {HttpResponse(200, ""), HttpResponse(500, ""), Rejected("Failed to fetch")}

\* line 296: response.ok
ResponseOk(r) == r.kind = "response" /\ r.status >= 200 /\ r.status <= 299

\* lines 297-298 and 326: error.message as the catch block sees it
ErrorMessage_Credential(r) ==
  IF r.kind = "response" /\ r.status = 401 THEN KeyNotConfigured
  ELSE IF r.kind = "rejected" \/ r.message # "" THEN r.message
  ELSE "API request failed: " \o ToString(r.status)

ErrorMessage(r) ==
  IF r.kind = "rejected" \/ r.message # "" THEN r.message
  ELSE "API request failed: " \o ToString(r.status)

\* line 241: sleep(waitTime) resolves; analyzeError starts
WakeUp(w) ==
  LET k == workers[w]
  IN  /\ k.pc = "sleep"
      /\ now >= k.wakeAt
      /\ heap' = MarkAnalyzing(heap, k.obj)
      /\ workers' = ReplaceAt(workers, w, [k EXCEPT !.pc = "update1_get"])
      /\ UNCHANGED <<storedErrors, apiKey, errorCache, analysisQueue,
                     isProcessingQueue, lastApiCallTime, captures, clears, notes,
                     lastResponse, fetchStarts, removed, lastErrorId, nCaptured,
                     nResubmitted, nCleared>>

\* lines 399-405, called from line 258 or from lines 311 and 333
UpdateGet(w) ==
  LET k == workers[w]
  IN  /\ k.pc \in {"update1_get", "update2_get"}
      /\ workers' = ReplaceAt(workers, w,
            [k EXCEPT !.pc = IF k.pc = "update1_get" THEN "update1_set"
                             ELSE "update2_set",
                      !.write = UpdatedErrors(storedErrors, Copy(heap, k.obj))])
      /\ UNCHANGED <<storedErrors, apiKey, heap, errorCache, analysisQueue,
                     isProcessingQueue, lastApiCallTime, captures, clears, notes,
                     lastResponse, fetchStarts, removed, lastErrorId, nCaptured,
                     nResubmitted, nCleared>>

\* lines 258-267: the first update is written; ERROR_STATUS_UPDATED
Update1Set(w) ==
  LET k == workers[w]
  IN  /\ k.pc = "update1_set"
      /\ storedErrors' = k.write
      /\ notes' = Broadcast("ERROR_STATUS_UPDATED", heap[k.obj].id, "analyzing")
      /\ workers' = ReplaceAt(workers, w, [k EXCEPT !.pc = "get_key", !.write = <<>>])
      /\ UNCHANGED <<apiKey, heap, errorCache, analysisQueue, isProcessingQueue,
                     lastApiCallTime, captures, clears, lastResponse, fetchStarts,
                     removed, lastErrorId, nCaptured, nResubmitted, nCleared>>

\* lines 324-333: the catch block up to the get of updateErrorInStorage
Failed(hp, o, reason) ==
  [hp EXCEPT ![o].status = "failed", ![o].analysis = FailedAnalysis(reason)]

\* lines 308-311: success up to the get of updateErrorInStorage
Completed(hp, o) ==
  [hp EXCEPT ![o].status = "completed", ![o].analysis = ParsedAnalysis]

\* lines 267-294: the key is read; either the throw of line 270 or the fetch
GetKey(w) ==
  LET k == workers[w]
  IN  /\ k.pc = "get_key"
      /\ IF ApiKeyMissing(apiKey)
         THEN /\ heap' = Failed(heap, k.obj, KeyNotConfigured)
              /\ errorCache' = MapSet(errorCache, heap[k.obj].id, k.obj)
              /\ workers' = ReplaceAt(workers, w, [k EXCEPT !.pc = "update2_get"])
              /\ UNCHANGED fetchStarts
         ELSE /\ workers' = ReplaceAt(workers, w, [k EXCEPT !.pc = "fetch"])
              /\ fetchStarts' = IF fetchStarts = <<>> THEN <<now>>
                                ELSE <<fetchStarts[Len(fetchStarts)], now>>
              /\ heap' = [heap EXCEPT ![k.obj].fetchedAt = Ordinal(heap, "fetchedAt")]
              /\ UNCHANGED errorCache
      /\ UNCHANGED <<storedErrors, apiKey, analysisQueue, isProcessingQueue,
                     lastApiCallTime, captures, clears, notes, lastResponse,
                     removed, lastErrorId, nCaptured, nResubmitted, nCleared>>

\* lines 294-311 and 321-333: the fetch settles and the body is read
FetchSettles(w, outcome) ==
  LET k == workers[w]
  IN  /\ k.pc = "fetch"
      /\ heap' = [(IF ResponseOk(outcome) THEN Completed(heap, k.obj)
                   ELSE Failed(heap, k.obj, ErrorMessage(outcome)))
                    EXCEPT ![k.obj].httpStatus = outcome.status]
      /\ errorCache' = MapSet(errorCache, heap[k.obj].id, k.obj)
      /\ workers' = ReplaceAt(workers, w, [k EXCEPT !.pc = "update2_get"])
      /\ UNCHANGED <<storedErrors, apiKey, analysisQueue, isProcessingQueue,
                     lastApiCallTime, captures, clears, notes, lastResponse,
                     fetchStarts, removed, lastErrorId, nCaptured, nResubmitted, nCleared>>

\* lines 311-317 or 333-338, then 246-249: the second update is written, the
\* result is broadcast, analyzeError returns and the loop takes its next turn
Update2Set(w) ==
  LET k == workers[w]
      rec == heap[k.obj]
      t == LoopTurn(analysisQueue, heap, now)
  IN  /\ k.pc = "update2_set"
      /\ storedErrors' = k.write
      /\ notes' = Broadcast(IF rec.status = "completed" THEN "ANALYSIS_COMPLETED"
                            ELSE "ANALYSIS_FAILED", rec.id, rec.status)
      /\ lastApiCallTime' = now
      /\ analysisQueue' = t.queue
      /\ heap' = t.heap
      /\ isProcessingQueue' = t.flag
      /\ workers' = SubSeq(workers, 1, w - 1) \o t.worker
                    \o SubSeq(workers, w + 1, Len(workers))
      /\ UNCHANGED <<apiKey, errorCache, captures, clears, lastResponse,
                     fetchStarts, removed, lastErrorId, nCaptured, nResubmitted, nCleared>>

----------------------------------------------------------------------------
(* clearErrors *)

\* line 195-196: the working set is cleared and set({errors: []}) is called
ClearStart ==
  /\ nCleared' = nCleared + 1
  /\ errorCache' = EmptyMap
  /\ clears' = clears + 1
  /\ heap' = [o \in 1 .. Len(heap) |-> [heap[o] EXCEPT !.atClear = heap[o].status]]
  /\ UNCHANGED <<storedErrors, apiKey, analysisQueue, isProcessingQueue,
                 lastApiCallTime, captures, workers, notes, lastResponse,
                 fetchStarts, removed, lastErrorId, nCaptured, nResubmitted>>

\* lines 196-202: the set resolves; ERRORS_CLEARED; return
ClearSet ==
  /\ clears > 0
  /\ clears' = clears - 1
  /\ storedErrors' = <<>>
  /\ removed' = removed \cup IdsOf(storedErrors)
  /\ notes' = Broadcast("ERRORS_CLEARED", <<>>, "")
  /\ lastResponse' = Response("cleared", <<>>)
  /\ heap' = [o \in 1 .. Len(heap) |->
                [heap[o] EXCEPT !.waitingAtClear =
                                   \E q \in 1 .. Len(analysisQueue) : analysisQueue[q] = o]]
  /\ UNCHANGED <<apiKey, errorCache, analysisQueue, isProcessingQueue,
                 lastApiCallTime, captures, workers, fetchStarts, lastErrorId, nCaptured,
                 nResubmitted, nCleared>>

----------------------------------------------------------------------------
(* ANALYZE_ERROR: queueErrorAnalysis(message.payload).  The payload is the  *)
(* sender's copy of a record, so it is a new object in the background.      *)

ResubmitDepth == 2

Payloads == {storedErrors[i] :
               i \in 1 .. (IF Len(storedErrors) < ResubmitDepth
                           THEN Len(storedErrors) ELSE ResubmitDepth)}

AnalyzeErrorMessage(payload) ==
  LET o == Len(heap) + 1
      hp == Append(heap, [NewRecord(payload.id, "resubmitted") EXCEPT
                            !.status = payload.status,
                            !.submittedAs = payload.status,
                            !.analysis = payload.analysis])
      r == QueueErrorAnalysis(o, hp)
  IN  /\ nResubmitted' = nResubmitted + 1
      /\ analysisQueue' = r.queue
      /\ heap' = r.heap
      /\ isProcessingQueue' = r.flag
      /\ workers' = r.workers
      /\ lastResponse' = Response("queued", payload.id)
      /\ UNCHANGED <<storedErrors, apiKey, errorCache, lastApiCallTime, captures,
                     clears, notes, fetchStarts, removed, lastErrorId, nCaptured, nCleared>>

----------------------------------------------------------------------------
(* The domain gate: checkDomainAllowed and matchDomainPattern               *)

Caret == 94
Dollar == 36
Backslash == 92
Dot == 46
Star == 42
Bar == 124

\* String.prototype.replace with a global one-character pattern
RECURSIVE ReplaceAll(_, _, _)
ReplaceAll(str, c, by) ==
  IF str = <<>> THEN <<>>
  ELSE (IF Head(str) = c THEN by ELSE <<Head(str)>>) \o ReplaceAll(Tail(str), c, by)

\* pattern.replace(/\./g, '\\.').replace(/\*/g, '.*')
RegexPattern(pattern) ==
  ReplaceAll(ReplaceAll(pattern, Dot, <<Backslash, Dot>>), Star, <<Dot, Star>>)

\* `^${regexPattern}$`
RegexSource(pattern) == <<Caret>> \o RegexPattern(pattern) \o <<Dollar>>

\* the 'i' flag on ASCII letters
Canonicalize(c) == IF c \in 97 .. 122 THEN c - 32 ELSE c

\* Whether the alternative of the regular expression re that begins at re[i]
\* matches str from position j on.  The syntax is what RegexSource can
\* produce from the characters of PatternChars: ^ and $ assertions, an
\* escaped character, .* and . , a literal, and | between alternatives.
RECURSIVE MatchHere(_, _, _, _)
MatchHere(re, i, str, j) ==
  IF i > Len(re) \/ re[i] = Bar THEN TRUE
  ELSE IF re[i] = Caret THEN j = 1 /\ MatchHere(re, i + 1, str, j)
  ELSE IF re[i] = Dollar THEN j = Len(str) + 1 /\ MatchHere(re, i + 1, str, j)
  ELSE IF re[i] = Backslash
       THEN /\ j <= Len(str)
            /\ str[j] = re[i + 1]
            /\ MatchHere(re, i + 2, str, j + 1)
  ELSE IF re[i] = Dot /\ i < Len(re) /\ re[i + 1] = Star
       THEN \E k \in j .. Len(str) + 1 : MatchHere(re, i + 2, str, k)
  ELSE IF re[i] = Dot
       THEN j <= Len(str) /\ MatchHere(re, i + 1, str, j + 1)
  ELSE /\ j <= Len(str)
       /\ Canonicalize(str[j]) = Canonicalize(re[i])
       /\ MatchHere(re, i + 1, str, j + 1)

\* RegExp.prototype.test without the g flag: a match of some alternative
\* starting anywhere
RegexTest(re, str) ==
  \E i \in {1} \cup {k + 1 : k \in {x \in 1 .. Len(re) : re[x] = Bar}} :
     \E j \in 1 .. Len(str) + 1 : MatchHere(re, i, str, j)

\* part_001 lines 430-438
matchDomainPattern(domain, pattern) == RegexTest(RegexSource(pattern), domain)

\* part_001 lines 415-425, the value the call resolves with
checkDomainAllowed(domain) ==
  IF ~enabled THEN [allowed |-> "false"]
  ELSE [allowed |-> IF \E x \in 1 .. Len(domains) :
                          matchDomainPattern(domain, domains[x])
                    THEN "true" ELSE "false"]

\* part_001 line 21
DEFAULT_DOMAINS ==
  << <<108, 111, 99, 97, 108, 104, 111, 115, 116>>, <<49, 50, 55, 46, 48, 46, 48, 46, 49>>, <<42, 46, 108, 111, 99, 97, 108>>, <<115, 116, 97, 103, 105, 110, 103, 46, 42>>, <<42, 46, 115, 116, 97, 103, 105, 110, 103, 46, 42>> >>

----------------------------------------------------------------------------
(* The content script's bootstrap, content.js lines 13-77 and 655-666, and  *)
(* the second script of the file, lines 679-1042                            *)

\* the allowed property of a response: "true", "false", or "undefined" when
\* there is no response object
NoAnswer == [allowed |-> "undefined"]

\* content.js lines 65-77: what setupAllCapture installs
AllCapture ==
  {"console", "window", "promise", "fetch", "xhr", "dom", "mutation",
   "performance", "resource", "csp", "reporting"}

\* content.js lines 1037-1040: what the second script installs at once
NetworkCapture == {"fetch", "xhr"}

MaxRuns == 3             \* evaluations of the script file in one page

\* the side panel has not been opened
PanelClosed == [pc |-> "closed", errors |-> <<>>, registeredAt |-> 0]

NotInjected == [runs |-> 0, layers |-> [p \in AllCapture |-> 0]]

\* one more wrapper or listener for each capture of the set
Layered(layers, added) ==
  [p \in AllCapture |-> IF p \in added THEN layers[p] + 1 ELSE layers[p]]

\* the first script without the guard of lines 19-21
FirstScriptReturns_Never(flag) == FALSE

\* lines 19-21: the first script returns when the flag is set
FirstScriptReturns(flag) == flag

\* a second script without the guard of lines 689-692
SecondScriptReturns_Never(flag) == FALSE

\* lines 689-691: the second script returns when the flag is set
SecondScriptReturns(flag) == flag

\* a bootstrap that treats a missing answer as permission
IsAllowed_FailOpen(response) == response.allowed # "false"

\* line 51: response?.allowed || false
IsAllowed(response) == response.allowed = "true"

\* The file is evaluated: the first script sets the flag (lines 19-22) and
\* arranges for initialize() (lines 659-663); the second script runs next
\* and stops at its guard, or else installs its network monitors.
\* When the file is evaluated again in the same page, the first script
\* returns at its guard.
RunContentScript ==
  LET second == IF SecondScriptReturns(TRUE) THEN {} ELSE NetworkCapture
  IN  /\ injections.runs < MaxRuns
      /\ IF FirstScriptReturns(injected)
         THEN UNCHANGED <<injected, bootstrap>>
         ELSE injected' = TRUE /\ bootstrap' = "ready"
      /\ installed' = installed \cup second
      /\ injections' = [runs |-> injections.runs + 1,
                        layers |-> Layered(injections.layers, second)]
      /\ UNCHANGED <<domains, enabled, host, gateAnswer, isEnabledForDomain, panel>>

\* lines 42-49: initialize() sends CHECK_DOMAIN; sendMessage may throw at
\* once (line 59), and then nothing is installed
Initialize(transport) ==
  /\ bootstrap = "ready"
  /\ bootstrap' = (IF transport = "sent" THEN "asked" ELSE "done")
  /\ UNCHANGED <<domains, enabled, host, injected, gateAnswer,
                 isEnabledForDomain, installed, injections, panel>>

\* part_001 lines 97-98: the background answers CHECK_DOMAIN
CheckDomain ==
  /\ bootstrap = "asked"
  /\ gateAnswer = NoAnswer
  /\ gateAnswer' = checkDomainAllowed(host)
  /\ UNCHANGED <<domains, enabled, host, injected, bootstrap,
                 isEnabledForDomain, installed, injections, panel>>

\* lines 51-60: the promise of sendMessage settles.  It resolves with the
\* background's answer, resolves with undefined (nobody answered), or
\* rejects (the receiving end is gone).
ResponseArrives(outcome) ==
  LET response == IF outcome = "answer" THEN gateAnswer ELSE NoAnswer
      allowed == outcome # "rejected" /\ IsAllowed(response)
  IN  /\ bootstrap = "asked"
      /\ outcome = "answer" => gateAnswer # NoAnswer
      /\ bootstrap' = "done"
      /\ isEnabledForDomain' = allowed
      /\ installed' = (IF allowed THEN installed \cup AllCapture ELSE installed)
      /\ injections' = (IF allowed
                        THEN [injections EXCEPT !.layers = Layered(@, AllCapture)]
                        ELSE injections)
      /\ UNCHANGED <<domains, enabled, host, injected, gateAnswer, panel>>

ResponseOutcomes == {"answer", "undefined", "rejected"}

\* a page whose bootstrap has been allowed: the interceptors are installed
GatePassed ==
  /\ domains = DEFAULT_DOMAINS
  /\ enabled = TRUE
  /\ host = <<108, 111, 99, 97, 108, 104, 111, 115, 116>>
  /\ injected = TRUE
  /\ bootstrap = "done"
  /\ gateAnswer = [allowed |-> "true"]
  /\ isEnabledForDomain = TRUE
  /\ installed = AllCapture
  /\ injections = [runs |-> 1, layers |-> [p \in AllCapture |-> 1]]
  /\ panel = PanelClosed

----------------------------------------------------------------------------
(* The content script: sendErrorToBackground, content.js lines 616-654      *)

Colon == <<58>>

\* line 625: `${errorData.type}:${errorData.message}:${errorData.filename}`
ErrorKey(errorData) ==
  errorData.type \o Colon \o errorData.message \o Colon \o errorData.filename

\* How a call ends for its caller: it returns a value or throws (a promise
\* resolves or rejects).  NothingSeen: the page has made no call yet.
Returns(value) == [kind |-> "return", value |-> value]
Throws(error) == [kind |-> "throw", value |-> error]
NoCall == [kind |-> "none", value |-> "none"]

\* pageSaw: the interceptor that ran, how the original it wraps ended (NoCall
\* for a listener, which wraps nothing) and how the interceptor itself ended
Saw(op, original, end) ==
  [op |-> op, original |-> original, kind |-> end.kind, value |-> end.value]

NothingSeen == Saw("none", NoCall, NoCall)

\* lines 33-36: the script has just been injected into the page
PageInit ==
  /\ errorCount = 0
  /\ lastErrorReset = now
  /\ recentErrors = EmptyMap
  /\ channel = <<>>
  /\ lastSignal = [data |-> <<>>, time |-> 0, forwarded |-> FALSE, seq |-> 0,
                   transport |-> "unreached"]
  /\ lastForward = EmptyMap
  /\ window = [start |-> now, count |-> 0]
  /\ observed = [start |-> 0, count |-> 0, resets |-> 0]
  /\ nTicks = 0
  /\ pageSaw = NothingSeen

\* a window that is reset as soon as the debounce interval has passed
WindowExpired_Early(t, last) == t - last > DEBOUNCE_MS

\* line 618
WindowExpired(t, last) == t - last > WINDOW_MS

\* a ceiling that lets one more through
AtCeiling_OffByOne(count) == count > MAX_ERRORS_PER_MINUTE

\* line 623
AtCeiling(count) == count >= MAX_ERRORS_PER_MINUTE

\* the debounce check left out
IsDebounced_Never(recent, errorKey, t) == FALSE

\* lines 626-628: lastSent && (now - lastSent) < CONFIG.DEBOUNCE_MS
IsDebounced(recent, errorKey, t) ==
  /\ errorKey \in DOMAIN recent
  /\ recent[errorKey] # 0
  /\ t - recent[errorKey] < DEBOUNCE_MS

\* the map is never pruned
Pruned_Never(recent, t) == recent

\* lines 633-638
Pruned(recent, t) ==
  IF Cardinality(DOMAIN recent) > RECENT_MAX
  THEN LET cutoff == t - RECENT_HORIZON_MS
       IN  [k \in {x \in DOMAIN recent : ~(recent[x] < cutoff)} |-> recent[k]]
  ELSE recent

\* the try block without its catch
SendCompletion_Uncaught(transport) ==
  IF transport = "throws" THEN Throws("Extension context invalidated.")
  ELSE Returns("undefined")

\* lines 647-653: how the call ends when sendMessage has been reached; the
\* catch block is empty
SendCompletion(transport) == Returns("undefined")

\* the whole call.  transport is what chrome.runtime.sendMessage does when it
\* is reached: "sent" puts the message on the channel, "throws" is the
\* synchronous exception of an invalidated extension context (line 653)
sendErrorToBackground(errorData, transport) ==
  LET reset == WindowExpired(now, lastErrorReset)
      count == IF reset THEN 0 ELSE errorCount
      errorKey == ErrorKey(errorData)
      forwards == ~AtCeiling(count) /\ ~IsDebounced(recentErrors, errorKey, now)
      enrichedError == [data |-> errorData, timestamp |-> now]
      expired == now - window.start > WINDOW_MS
      fresh == observed.start = 0 \/ now - observed.start >= WINDOW_MS
      r == IF reset THEN 1 ELSE 0
  IN  /\ lastErrorReset' = (IF reset THEN now ELSE lastErrorReset)
      /\ errorCount' = (IF forwards THEN count + 1 ELSE count)
      /\ recentErrors' = (IF forwards
                          THEN Pruned(MapSet(recentErrors, errorKey, now), now)
                          ELSE recentErrors)
      /\ channel' = (IF forwards /\ transport = "sent"
                     THEN Append(channel, enrichedError) ELSE channel)
      /\ lastSignal' = [data |-> errorData, time |-> now, forwarded |-> forwards,
                        seq |-> 1 - lastSignal.seq,
                        transport |-> IF forwards THEN transport ELSE "unreached"]
      /\ lastForward' = (IF forwards THEN MapSet(lastForward, errorKey, now)
                         ELSE lastForward)
      /\ window' = [start |-> IF expired THEN now ELSE window.start,
                    count |-> (IF expired THEN 0 ELSE window.count)
                                + (IF forwards THEN 1 ELSE 0)]
      /\ observed' = (IF forwards
                      THEN IF fresh
                           THEN [start |-> now, count |-> 1, resets |-> 0]
                           ELSE [observed EXCEPT !.count = @ + 1, !.resets = @ + r]
                      ELSE IF fresh THEN observed
                           ELSE [observed EXCEPT !.resets = @ + r])
      /\ UNCHANGED <<nTicks, gateVars>>

\* how the call that has just been made ends for its caller: the returns of
\* lines 623 and 628, or the end of the try statement
SendEnds(transport) ==
  IF lastSignal'.forwarded THEN SendCompletion(transport) ELSE Returns("undefined")

\* sendErrorToBackground called from an event listener or an observer
\* callback: an exception that escapes it is reported to the page
CalledFromListener(errorData, transport) ==
  /\ sendErrorToBackground(errorData, transport)
  /\ pageSaw' = IF SendEnds(transport).kind = "throw"
                THEN Saw("listener", NoCall, SendEnds(transport))
                ELSE pageSaw

\* line 652: the promise of sendMessage rejects (no receiving end); the
\* rejection is swallowed
SendRejected ==
  /\ channel # <<>>
  /\ channel' = Tail(channel)
  /\ UNCHANGED <<errorCount, lastErrorReset, recentErrors, lastSignal,
                 lastForward, window, observed, nTicks, pageSaw, gateVars>>

----------------------------------------------------------------------------
(* The background context under arbitrary senders *)

QueueTicks == {500}

nMessages == nCaptured + nResubmitted + nCleared

\* the log is empty: a fresh install, or the first start after a clear
Init ==
  /\ now = StartTime
  /\ BgInit(<<>>)
  /\ PageInit
  /\ GatePassed

Next ==
  \/ \E d \in QueueTicks : Tick(d) /\ UNCHANGED <<bgVars, pageVars>>
  \/ \E errorData \in ErrorInputs :
        nCaptured < MaxCaptured /\ nMessages < MaxMessages /\ ErrorCaptured(errorData) /\ UNCHANGED <<now, pageVars>>
  \/ \E c \in 1 .. Len(captures) : SaveGet(c) /\ UNCHANGED <<now, pageVars>>
  \/ \E c \in 1 .. Len(captures) : SaveSet(c) /\ UNCHANGED <<now, pageVars>>
  \/ \E w \in 1 .. Len(workers) : WakeUp(w) /\ UNCHANGED <<now, pageVars>>
  \/ \E w \in 1 .. Len(workers) : UpdateGet(w) /\ UNCHANGED <<now, pageVars>>
  \/ \E w \in 1 .. Len(workers) : Update1Set(w) /\ UNCHANGED <<now, pageVars>>
  \/ \E w \in 1 .. Len(workers) : GetKey(w) /\ UNCHANGED <<now, pageVars>>
  \/ \E w \in 1 .. Len(workers), outcome \in FetchOutcomes :
        FetchSettles(w, outcome) /\ UNCHANGED <<now, pageVars>>
  \/ \E w \in 1 .. Len(workers) : Update2Set(w) /\ UNCHANGED <<now, pageVars>>
  \/ nCleared < MaxCleared /\ nMessages < MaxMessages /\ ClearStart /\ UNCHANGED <<now, pageVars>>
  \/ ClearSet /\ UNCHANGED <<now, pageVars>>
  \/ \E payload \in Payloads :
        nResubmitted < MaxResubmitted /\ nMessages < MaxMessages /\ AnalyzeErrorMessage(payload) /\ UNCHANGED <<now, pageVars>>

Spec == Init /\ [][Next]_vars

----------------------------------------------------------------------------
(* Properties of the analysis queue *)

InFlight == {w \in 1 .. Len(workers) : workers[w].pc = "fetch"}

\* C1: any two external analysis calls start at least RATE_LIMIT_MS apart
\* (fetchStarts holds the start times of the two most recent calls, so this
\* covers every pair of consecutive calls, hence every pair).
C1_CallsSpaced ==
  Len(fetchStarts) = 2 => fetchStarts[2] - fetchStarts[1] >= RATE_LIMIT_MS

\* two calls have been issued, the second exactly RATE_LIMIT_MS after the first
C1_Witness ==
  Len(fetchStarts) = 2 /\ fetchStarts[2] - fetchStarts[1] = RATE_LIMIT_MS

\* C2: at most one processQueue call is active and at most one external call
\* is in flight, whatever messages arrive while the worker is suspended
C2_SingleWorker ==
  Len(workers) <= 1 /\ Cardinality(InFlight) <= 1

\* a call is in flight while an ANALYZE_ERROR message has put another record
\* in the queue
C2_Witness ==
  /\ InFlight # {}
  /\ nResubmitted > 0
  /\ Len(analysisQueue) > 0

StatusChanges(o) == <<heap[o].status, heap'[o].status>>

FirstRunChanges ==
  {<<"pending", "analyzing">>, <<"analyzing", "completed">>,
   <<"analyzing", "failed">>}

C4_DuplicateIsNoOp ==
  [][(nCaptured' # nCaptured /\ lastErrorId' \in DOMAIN errorCache)
       => /\ lastResponse'.kind = "duplicate"
          /\ UNCHANGED <<storedErrors, heap, errorCache, analysisQueue,
                         isProcessingQueue, captures, workers, notes>>]_vars

\* a duplicate has been answered
C4_Witness ==
  lastResponse.kind = "duplicate" /\ lastErrorId \in DOMAIN errorCache

----------------------------------------------------------------------------
(* The same program started with a log that an earlier run has nearly filled *)

FullLogInit ==
  /\ now = StartTime
  /\ BgInit(OldLog(Preloaded))
  /\ PageInit
  /\ GatePassed

FullLogSpec == FullLogInit /\ [][Next]_vars

----------------------------------------------------------------------------
(* Properties of the persisted log *)

Announced == {notes[i].id : i \in {j \in 1 .. Len(notes) : notes[j].type = "NEW_ERROR"}}

\* a step in which some saveErrorToStorage call writes its list
SaveWrites == Len(captures') < Len(captures)

\* C5: the log never holds more than MAX_STORED_ERRORS records, and a save
\* that finds the log full puts the new record at the head and drops exactly
\* the oldest record
C5_CapAndEvictOldest ==
  [][/\ Len(storedErrors') <= MAX_STORED_ERRORS
     /\ (SaveWrites /\ Len(storedErrors) = MAX_STORED_ERRORS)
          => /\ Len(storedErrors') = MAX_STORED_ERRORS
             /\ SubSeq(storedErrors', 2, MAX_STORED_ERRORS)
                  = SubSeq(storedErrors, 1, MAX_STORED_ERRORS - 1)]_vars

\* C6: every id announced with NEW_ERROR has a record in the log, unless the
\* cap or a clear has removed it
C6_AnnouncedArePersisted ==
  \A id \in Announced : id \in IdsOf(storedErrors) \/ id \in removed

----------------------------------------------------------------------------
(* The page followed alone.  What the background answers has no effect on  *)
(* the content script: the promise of sendMessage is never read.            *)

MaxInFlight == 1         \* messages on the channel at a time
DebounceClock == 200     \* the clock of DebounceSpec runs this long
RateClock == 61000       \* the clock of RateSpec runs this long
MaxTicks == 52           \* clock steps of RateSpec

Transports == {"sent", "throws"}

OneError == {e \in ErrorInputs : e.message = <<65, 97>>}

Signal(inputs) ==
  \E errorData \in inputs, transport \in Transports :
     /\ installed # {}
     /\ Len(channel) < MaxInFlight
     /\ CalledFromListener(errorData, transport)
     /\ UNCHANGED <<now, bgVars>>

\* signals of two keys, a few tens of milliseconds apart
DebounceTicks == {40, 60}

DebounceNext ==
  \/ \E d \in DebounceTicks : TickWithin(d, DebounceClock) /\ UNCHANGED <<bgVars, pageVars>>
  \/ Signal(ErrorInputs)
  \/ SendRejected /\ UNCHANGED <<now, bgVars>>

DebounceSpec == Init /\ [][DebounceNext]_vars

\* a burst of one error, raised every BurstPeriod ms, with pauses of
\* PauseLength ms: the clock moves by the period only from an instant at
\* which the error was raised
BurstPeriod == 100
PauseLength == 55000

RateTicks == {BurstPeriod, PauseLength}

RateTick(d) ==
  /\ nTicks < MaxTicks
  /\ d = BurstPeriod => lastSignal.time = now
  /\ TickWithin(d, RateClock)
  /\ nTicks' = nTicks + 1
  /\ UNCHANGED <<bgVars, errorCount, lastErrorReset, recentErrors, channel,
                 lastSignal, lastForward, window, observed, pageSaw, gateVars>>

RateNext ==
  \/ \E d \in RateTicks : RateTick(d)
  \/ Signal(OneError)
  \/ SendRejected /\ UNCHANGED <<now, bgVars>>

RateSpec == Init /\ [][RateNext]_vars

----------------------------------------------------------------------------
(* Properties of the front-line throttle *)

\* a step that is one sendErrorToBackground call
SignalStep == lastSignal' # lastSignal

\* the key of the signal handled in this step has been forwarded less than
\* DEBOUNCE_MS ago
RecentlyForwarded(errorKey) ==
  errorKey \in DOMAIN lastForward /\ now - lastForward[errorKey] < DEBOUNCE_MS

\* C7: of the signals of one key that come less than DEBOUNCE_MS after a
\* forwarded one, none is forwarded (nothing is sent and the throttle's state
\* stays as it is); the first signal of a key is forwarded while the ceiling
\* is not reached.  So three identical signals within 50 ms give one forward.
C7_DebounceForwardsFirst ==
  [][SignalStep =>
       LET errorKey == ErrorKey(lastSignal'.data)
       IN  /\ RecentlyForwarded(errorKey)
                => /\ ~lastSignal'.forwarded
                   /\ UNCHANGED <<channel, recentErrors, errorCount, lastForward>>
           /\ (errorKey \notin DOMAIN lastForward
                 /\ window.count < MAX_ERRORS_PER_MINUTE)
                => /\ lastSignal'.forwarded
                   /\ lastForward'[errorKey] = now]_vars

\* a signal has been dropped 40 ms after the forward of the same key, which
\* is the only forward of that key
C7_Witness ==
  /\ ~lastSignal.forwarded
  /\ lastSignal.time = now
  /\ ErrorKey(lastSignal.data) \in DOMAIN lastForward
  /\ now - lastForward[ErrorKey(lastSignal.data)] = 40
  /\ lastForward[ErrorKey(lastSignal.data)] = StartTime


\* the rate window of the claim: it is reset by the first signal that comes
\* more than WINDOW_MS after the last reset
WindowIsOver == now - window.start > WINDOW_MS

\* C9: within one rate window at most MAX_ERRORS_PER_MINUTE signals are
\* forwarded; a signal that finds the ceiling reached is dropped and leaves
\* no trace; a signal that comes after the window is over is forwarded again
\* (unless its key is debounced)
C9_CeilingPerWindow ==
  [][/\ window'.count <= MAX_ERRORS_PER_MINUTE
     /\ (SignalStep /\ ~WindowIsOver /\ window.count = MAX_ERRORS_PER_MINUTE)
          => /\ ~lastSignal'.forwarded
             /\ UNCHANGED <<channel, errorCount, lastErrorReset, recentErrors>>
     /\ (SignalStep /\ WindowIsOver /\ ~RecentlyForwarded(ErrorKey(lastSignal'.data)))
          => /\ lastSignal'.forwarded
             /\ window'.count = 1]_vars

\* the ceiling was reached in the first window, the window has been reset by
\* a later signal, and that signal has been forwarded
C9_Witness ==
  /\ observed.count > MAX_ERRORS_PER_MINUTE
  /\ window.start > StartTime
  /\ window.count = 1
  /\ lastSignal.forwarded

\* C10 as stated: the window slides, so an interval of WINDOW_MS never holds
\* more than MAX_ERRORS_PER_MINUTE forwards
C10_SlidingWindow == observed.count <= MAX_ERRORS_PER_MINUTE

\* C10: the window is fixed.  The counter is reset at most once in an
\* interval of WINDOW_MS, so the interval holds at most MAX_ERRORS_PER_MINUTE
\* forwards before the reset and as many after it
C10_FixedWindow ==
  /\ observed.resets <= 1
  /\ observed.count <= MAX_ERRORS_PER_MINUTE * (observed.resets + 1)

\* 51 forwards within one interval of WINDOW_MS
C10_Witness ==
  /\ observed.count = MAX_ERRORS_PER_MINUTE + 1
  /\ now - observed.start < WINDOW_MS

----------------------------------------------------------------------------
(* The page and the background together: the messages the content script    *)
(* sends are the ERROR_CAPTURED messages the service worker handles.  The    *)
(* runtime hands a message to the onMessage listener some time after it was  *)
(* sent (the service worker may have to be started first), in sending order. *)

\* part_001 lines 74-86: the listener takes the oldest message of the channel
Deliver ==
  /\ channel # <<>>
  /\ ErrorCaptured(Head(channel).data)
  /\ channel' = Tail(channel)
  /\ UNCHANGED <<now, errorCount, lastErrorReset, recentErrors, lastSignal,
                 lastForward, window, observed, nTicks, pageSaw, gateVars>>

PipelineNext ==
  \/ \E d \in QueueTicks : Tick(d) /\ UNCHANGED <<bgVars, pageVars>>
  \/ \E errorData \in OneError :
        /\ installed # {}
        /\ Len(channel) + nCaptured < MaxCaptured
        /\ CalledFromListener(errorData, "sent")
        /\ UNCHANGED <<now, bgVars>>
  \/ Deliver
  \/ \E c \in 1 .. Len(captures) : SaveGet(c) /\ UNCHANGED <<now, pageVars>>
  \/ \E c \in 1 .. Len(captures) : SaveSet(c) /\ UNCHANGED <<now, pageVars>>
  \/ \E w \in 1 .. Len(workers) : WakeUp(w) /\ UNCHANGED <<now, pageVars>>
  \/ \E w \in 1 .. Len(workers) : UpdateGet(w) /\ UNCHANGED <<now, pageVars>>
  \/ \E w \in 1 .. Len(workers) : Update1Set(w) /\ UNCHANGED <<now, pageVars>>
  \/ \E w \in 1 .. Len(workers) : GetKey(w) /\ UNCHANGED <<now, pageVars>>
  \/ \E w \in 1 .. Len(workers), outcome \in FetchOutcomes :
        FetchSettles(w, outcome) /\ UNCHANGED <<now, pageVars>>
  \/ \E w \in 1 .. Len(workers) : Update2Set(w) /\ UNCHANGED <<now, pageVars>>

PipelineSpec == Init /\ [][PipelineNext]_vars

----------------------------------------------------------------------------
(* Properties of the pipeline *)

\* a step in which the listener takes a message
DeliverStep == Len(channel') < Len(channel)

\* C8: a signal whose key was last forwarded more than DEBOUNCE_MS ago is
\* forwarded while the ceiling is not reached, and every forwarded signal is
\* ingested as an event of its own: a new record under an id no record has
C8_SpacedSignalsAreSeparateEvents ==
  [][/\ (SignalStep /\ window.count < MAX_ERRORS_PER_MINUTE
           /\ ErrorKey(lastSignal'.data) \in DOMAIN lastForward
           /\ now - lastForward[ErrorKey(lastSignal'.data)] > DEBOUNCE_MS)
          => /\ lastSignal'.forwarded
             /\ Len(channel') = Len(channel) + 1
     /\ DeliverStep
          => /\ Len(heap') = Len(heap) + 1
             /\ heap'[Len(heap')].id \notin {heap[o].id : o \in 1 .. Len(heap)}
             /\ lastResponse'.kind # "duplicate"]_vars

----------------------------------------------------------------------------
(* The domain gate on its own: CHECK_DOMAIN has been sent and is answered   *)

MaxPatterns == 2         \* patterns in the configured list
MaxHostLen == 3          \* length of the generated host names

AppStagingHost == <<97, 112, 112, 46, 115, 116, 97, 103, 105, 110, 103, 46, 101, 120, 97, 109, 112, 108, 101, 46, 99, 111, 109>>
ExampleHost == <<101, 120, 97, 109, 112, 108, 101, 46, 99, 111, 109>>

\* "a", "a.a", "*.a", "a.*", "*", "a*a", "a|", "*.staging.*"
Patterns ==
  {<<97>>, <<97, 46, 97>>, <<42, 46, 97>>, <<97, 46, 42>>, <<42>>,
   <<97, 42, 97>>, <<97, 124>>, <<42, 46, 115, 116, 97, 103, 105, 110, 103, 46, 42>>}

PatternChars == UNION {{p[x] : x \in 1 .. Len(p)} : p \in Patterns}

DomainLists == UNION {[1 .. n -> Patterns] : n \in 0 .. MaxPatterns}

\* "a", "A", "b", "."
HostChars == {97, 65, 98, 46}

Hosts ==
  UNION {[1 .. n -> HostChars] : n \in 1 .. MaxHostLen}
    \cup {AppStagingHost, ExampleHost}

MatchInit ==
  /\ now = StartTime
  /\ BgInit(<<>>)
  /\ PageInit
  /\ domains \in DomainLists
  /\ enabled \in BOOLEAN
  /\ host \in Hosts
  /\ injected = TRUE
  /\ bootstrap = "asked"
  /\ gateAnswer = NoAnswer
  /\ isEnabledForDomain = FALSE
  /\ installed = {}
  /\ injections = NotInjected
  /\ panel = PanelClosed

MatchNext == CheckDomain /\ UNCHANGED <<now, bgVars, throttleVars>>

MatchSpec == MatchInit /\ [][MatchNext]_vars

----------------------------------------------------------------------------
(* Properties of the domain gate *)

ToLower(c) == IF c \in 65 .. 90 THEN c + 32 ELSE c

\* the pattern language of the gate as described: `*` stands for any run
\* of characters, every other character for itself, letters in either case;
\* the whole host has to be matched
RECURSIVE GlobMatch(_, _, _, _)
GlobMatch(pattern, i, str, j) ==
  IF i > Len(pattern) THEN j = Len(str) + 1
  ELSE IF pattern[i] = Star
       THEN \E k \in j .. Len(str) + 1 : GlobMatch(pattern, i + 1, str, k)
  ELSE /\ j <= Len(str)
       /\ ToLower(str[j]) = ToLower(pattern[i])
       /\ GlobMatch(pattern, i + 1, str, j + 1)

\* C11: the answer is allowed exactly when the flag is set and some
\* configured pattern matches the whole host
C11_AllowedIffEnabledAndMatch ==
  gateAnswer # NoAnswer
    => (gateAnswer.allowed = "true"
          <=> (enabled /\ \E x \in 1 .. Len(domains) : GlobMatch(domains[x], 1, host, 1)))

----------------------------------------------------------------------------
(* A page load from the evaluation of the content script on *)

\* the default list, an empty list, a list without wildcard
GateDomainLists == {DEFAULT_DOMAINS, <<>>, <<<<101, 120, 97, 109, 112, 108, 101, 46, 99, 111, 109>>>>}

GateHosts == {<<108, 111, 99, 97, 108, 104, 111, 115, 116>>, ExampleHost, AppStagingHost}

GateInit ==
  /\ now = StartTime
  /\ BgInit(<<>>)
  /\ PageInit
  /\ domains \in GateDomainLists
  /\ enabled \in BOOLEAN
  /\ host \in GateHosts
  /\ injected = FALSE
  /\ bootstrap = "load"
  /\ gateAnswer = NoAnswer
  /\ isEnabledForDomain = FALSE
  /\ installed = {}
  /\ injections = NotInjected
  /\ panel = PanelClosed

GateNext ==
  \/ RunContentScript /\ UNCHANGED <<now, bgVars, throttleVars>>
  \/ \E transport \in Transports :
        Initialize(transport) /\ UNCHANGED <<now, bgVars, throttleVars>>
  \/ CheckDomain /\ UNCHANGED <<now, bgVars, throttleVars>>
  \/ \E outcome \in ResponseOutcomes :
        ResponseArrives(outcome) /\ UNCHANGED <<now, bgVars, throttleVars>>
  \/ Signal(ErrorInputs)
  \/ SendRejected /\ UNCHANGED <<now, bgVars>>

GateSpec == GateInit /\ [][GateNext]_vars

\* C12: unless the background has answered allowed and the page has received
\* that answer, no interceptor is installed and nothing is or has been sent
C12_FailClosed ==
  ~(bootstrap = "done" /\ gateAnswer.allowed = "true" /\ isEnabledForDomain)
    => /\ installed = {}
       /\ channel = <<>>
       /\ lastForward = EmptyMap

\* the gate has answered disallowed, the page has that answer, and nothing
\* is installed
C12_Witness ==
  /\ bootstrap = "done"
  /\ gateAnswer.allowed = "false"
  /\ installed = {}
  /\ ~isEnabledForDomain

----------------------------------------------------------------------------
(* The analysis queue with enough ingestions for entries to wait in it *)

MaxQueued == 3           \* ERROR_CAPTURED messages of QueueSpec

\* the k-th error of a burst of different errors ("Aa", "Ab", "Ac", ...), so
\* that several can be ingested within a millisecond
BurstError(k) ==
  [type |-> <<101>>, message |-> <<65, 96 + k>>, filename |-> <<102>>, lineno |-> 1]

QueueNext ==
  \/ Tick(RATE_LIMIT_MS) /\ UNCHANGED <<bgVars, pageVars>>
  \/ \E errorData \in {BurstError(nCaptured + 1)} :
        nCaptured < MaxQueued /\ ErrorCaptured(errorData) /\ UNCHANGED <<now, pageVars>>
  \/ \E c \in 1 .. Len(captures) : SaveGet(c) /\ UNCHANGED <<now, pageVars>>
  \/ \E c \in 1 .. Len(captures) : SaveSet(c) /\ UNCHANGED <<now, pageVars>>
  \/ \E w \in 1 .. Len(workers) : WakeUp(w) /\ UNCHANGED <<now, pageVars>>
  \/ \E w \in 1 .. Len(workers) : UpdateGet(w) /\ UNCHANGED <<now, pageVars>>
  \/ \E w \in 1 .. Len(workers) : Update1Set(w) /\ UNCHANGED <<now, pageVars>>
  \/ \E w \in 1 .. Len(workers) : GetKey(w) /\ UNCHANGED <<now, pageVars>>
  \/ \E w \in 1 .. Len(workers), outcome \in FetchOutcomes :
        FetchSettles(w, outcome) /\ UNCHANGED <<now, pageVars>>
  \/ \E w \in 1 .. Len(workers) : Update2Set(w) /\ UNCHANGED <<now, pageVars>>

QueueSpec == Init /\ [][QueueNext]_vars


Queued == {o \in 1 .. Len(heap) : heap[o].queuedAt > 0}

\* C13: of two entries, the one pushed on the queue first enters analyzeError
\* first and has its external call (if it has one) made first
C13_Fifo ==
  \A a, b \in Queued :
     heap[a].queuedAt < heap[b].queuedAt
       => /\ heap[b].startedAt > 0
               => (heap[a].startedAt > 0 /\ heap[a].startedAt < heap[b].startedAt)
          /\ (heap[a].fetchedAt > 0 /\ heap[b].fetchedAt > 0)
               => heap[a].fetchedAt < heap[b].fetchedAt
          /\ heap[b].fetchedAt > 0
               => heap[a].status \in {"completed", "failed"}

\* two entries waited in the queue together; the older one has been taken
\* and has had its call, the newer one still waits
C13_Witness ==
  \E a, b \in Queued :
     /\ heap[a].queuedAt = 2 /\ heap[a].fetchedAt = 2
     /\ heap[b].queuedAt = 3 /\ heap[b].startedAt = 0
     /\ analysisQueue = <<b>>


----------------------------------------------------------------------------
(* The analysis queue under fairness: every continuation that can run does  *)
(* run, a pending timer fires, and the network answers every request.       *)

\* the timer of the sleeping worker comes due: the clock reaches wakeAt
TimerComesDue ==
  /\ \E w \in 1 .. Len(workers) : workers[w].pc = "sleep" /\ now < workers[w].wakeAt
  /\ now' = (CHOOSE t \in {workers[w].wakeAt : w \in 1 .. Len(workers)} : t > now)
  /\ UNCHANGED <<bgVars, pageVars>>

Continuations ==
  \/ \E c \in 1 .. Len(captures) : SaveGet(c) /\ UNCHANGED <<now, pageVars>>
  \/ \E c \in 1 .. Len(captures) : SaveSet(c) /\ UNCHANGED <<now, pageVars>>
  \/ \E w \in 1 .. Len(workers) : WakeUp(w) /\ UNCHANGED <<now, pageVars>>
  \/ \E w \in 1 .. Len(workers) : UpdateGet(w) /\ UNCHANGED <<now, pageVars>>
  \/ \E w \in 1 .. Len(workers) : Update1Set(w) /\ UNCHANGED <<now, pageVars>>
  \/ \E w \in 1 .. Len(workers) : GetKey(w) /\ UNCHANGED <<now, pageVars>>
  \/ \E w \in 1 .. Len(workers), outcome \in FetchOutcomes :
        FetchSettles(w, outcome) /\ UNCHANGED <<now, pageVars>>
  \/ \E w \in 1 .. Len(workers) : Update2Set(w) /\ UNCHANGED <<now, pageVars>>

LiveNext ==
  \/ TimerComesDue
  \/ nCaptured < MaxQueued /\ ErrorCaptured(BurstError(nCaptured + 1))
       /\ UNCHANGED <<now, pageVars>>
  \/ Continuations

LiveSpec == Init /\ [][LiveNext]_vars /\ WF_vars(Continuations) /\ WF_vars(TimerComesDue)

Terminal(o) ==
  o \in Queued /\ heap[o].startedAt > 0 /\ heap[o].status \in {"completed", "failed"}

----------------------------------------------------------------------------
(* The credential: every stored key, and a service that refuses the key     *)

StoredKeys == {<<>>, YOUR_API_KEY_HERE, SampleKey}

CredentialOutcomes ==
  FetchOutcomes \cup {HttpResponse(401, "invalid x-api-key"), HttpResponse(401, "")}

CredentialInit ==
  now = StartTime /\ BgInitWith(<<>>, StoredKeys) /\ PageInit /\ GatePassed

CredentialNext ==
  \/ Tick(RATE_LIMIT_MS) /\ UNCHANGED <<bgVars, pageVars>>
  \/ nCaptured < MaxCaptured /\ ErrorCaptured(BurstError(nCaptured + 1))
       /\ UNCHANGED <<now, pageVars>>
  \/ \E c \in 1 .. Len(captures) : SaveGet(c) /\ UNCHANGED <<now, pageVars>>
  \/ \E c \in 1 .. Len(captures) : SaveSet(c) /\ UNCHANGED <<now, pageVars>>
  \/ \E w \in 1 .. Len(workers) : WakeUp(w) /\ UNCHANGED <<now, pageVars>>
  \/ \E w \in 1 .. Len(workers) : UpdateGet(w) /\ UNCHANGED <<now, pageVars>>
  \/ \E w \in 1 .. Len(workers) : Update1Set(w) /\ UNCHANGED <<now, pageVars>>
  \/ \E w \in 1 .. Len(workers) : GetKey(w) /\ UNCHANGED <<now, pageVars>>
  \/ \E w \in 1 .. Len(workers), outcome \in CredentialOutcomes :
        FetchSettles(w, outcome) /\ UNCHANGED <<now, pageVars>>
  \/ \E w \in 1 .. Len(workers) : Update2Set(w) /\ UNCHANGED <<now, pageVars>>

CredentialSpec == CredentialInit /\ [][CredentialNext]_vars

\* the worker of record o has read the key
PastKeyCheck(o) ==
  /\ heap[o].startedAt > 0
  /\ \A w \in 1 .. Len(workers) :
        workers[w].obj = o =>
           workers[w].pc \notin {"sleep", "update1_get", "update1_set", "get_key"}

\* C16: with no stored key, or with the placeholder, a record whose analysis
\* has read the key is failed with the "not configured" message, and no
\* request is ever sent
C16_MissingKeyFailsWithoutRequest ==
  apiKey \in {<<>>, YOUR_API_KEY_HERE} =>
     /\ fetchStarts = <<>>
     /\ \A o \in 1 .. Len(heap) :
          /\ heap[o].fetchedAt = 0
          /\ PastKeyCheck(o) =>
               /\ heap[o].status = "failed"
               /\ heap[o].analysis.error = KeyNotConfigured

\* the key was never stored, and the first record has failed for it while
\* the second waits
C16_Witness ==
  /\ apiKey = <<>>
  /\ Len(heap) = 2
  /\ PastKeyCheck(1) /\ heap[1].status = "failed"
  /\ heap[2].status = "pending"

\* C17 as stated: after a 401 the record is failed and analysis.error is the
\* message used for a missing key
C17_CredentialMessageOn401 ==
  \A o \in 1 .. Len(heap) :
     heap[o].httpStatus = 401 =>
        /\ heap[o].status = "failed"
        /\ heap[o].analysis.error = KeyNotConfigured

\* C17 amended: after a 401 the record is failed, analysis.error is the
\* service's own error message, or "API request failed: 401" when the body
\* has none, and analysis.explanation asks to check the API key
C17_ServiceMessageOn401 ==
  \A o \in 1 .. Len(heap) :
     heap[o].httpStatus = 401 =>
        /\ heap[o].status = "failed"
        /\ heap[o].analysis.error \in {"invalid x-api-key", "API request failed: 401"}
        /\ heap[o].analysis.explanation =
             "Failed to analyze error. Please check your API key and try again."

\* a 401 without a readable body has been answered and written to the log
C17_Witness ==
  \E o \in 1 .. Len(heap), i \in 1 .. Len(storedErrors) :
     /\ heap[o].httpStatus = 401
     /\ heap[o].analysis.error = "API request failed: 401"
     /\ storedErrors[i] = Copy(heap, o)


----------------------------------------------------------------------------
(* Failure of the external call *)

\* analyzeError(o) has returned
Returned(o) ==
  /\ heap[o].startedAt > 0
  /\ \A w \in 1 .. Len(workers) : workers[w].obj # o

\* C15: once the analysis of a record has failed and analyzeError has
\* returned, the log holds the record as failed with the reason,
\* ANALYSIS_FAILED was sent for it, and it is neither queued nor analysed again
C15_FailureIsPersisted ==
  \A o \in 1 .. Len(heap) :
     (heap[o].status = "failed" /\ Returned(o)) =>
        /\ heap[o].analysis.kind = "failure"
        /\ \E i \in 1 .. Len(storedErrors) : storedErrors[i] = Copy(heap, o)
        /\ \E n \in 1 .. Len(notes) :
              notes[n].type = "ANALYSIS_FAILED" /\ notes[n].id = heap[o].id
        /\ \A q \in 1 .. Len(analysisQueue) : analysisQueue[q] # o


----------------------------------------------------------------------------
(* clearErrors against the handlers it interleaves with *)

\* every clearErrors call has returned, and there was one
ClearReturned == nCleared > 0 /\ clears = 0

\* ids of the records ingested before the clear began and not ingested again
ClearedIds ==
  {heap[o].id : o \in {x \in 1 .. Len(heap) : heap[x].atClear # "absent"}}
     \ {heap[o].id : o \in {x \in 1 .. Len(heap) : heap[x].atClear = "absent"}}

ClearAnnounced == \E n \in 1 .. Len(notes) : notes[n].type = "ERRORS_CLEARED"

\* C18: once clearErrors has returned, ERRORS_CLEARED was sent and neither the
\* log nor the working set holds a record ingested before the clear began
C18_ClearIsAtomic ==
  ClearReturned =>
     /\ ClearAnnounced
     /\ ClearedIds \cap IdsOf(storedErrors) = {}
     /\ ClearedIds \cap DOMAIN errorCache = {}

\* C19: after a clear that began while a record was analyzing, ERRORS_CLEARED
\* was sent and the log holds no cleared record, also once that analysis is over
C19_LogStaysCleared ==
  (ClearReturned /\ \E o \in 1 .. Len(heap) : heap[o].atClear = "analyzing") =>
     /\ ClearAnnounced
     /\ ClearedIds \cap IdsOf(storedErrors) = {}


----------------------------------------------------------------------------
(* Re-submission with ANALYZE_ERROR *)

\* record o enters analyzeError in this step
EntersAnalysis(o) ==
  /\ o \in 1 .. Len(heap')
  /\ heap'[o].startedAt > 0
  /\ o \in 1 .. Len(heap) => heap[o].startedAt = 0

\* C20: a record re-submitted as failed is pending when analyzeError takes it
C20_ResubmittedReentersPending ==
  [][\A o \in 1 .. Len(heap') :
        (EntersAnalysis(o) /\ heap'[o].origin = "resubmitted"
           /\ heap'[o].submittedAs = "failed")
        => (o \in 1 .. Len(heap) /\ heap[o].status = "pending")]_vars


----------------------------------------------------------------------------
(* Monotonic status of an event, as the log records it *)

\* the statuses under which the list holds the event id
StatusesOf(errors, id) ==
  {errors[i].status : i \in {j \in 1 .. Len(errors) : errors[j].id = id}}

\* a re-submitted record of the event is in the background
Resubmitted(hp, id) ==
  \E o \in 1 .. Len(hp) : hp[o].id = id /\ hp[o].origin = "resubmitted"

\* C21: an event that the log holds as completed stays completed while it is
\* in the log, and one it holds as failed stays failed unless the event was
\* re-submitted with ANALYZE_ERROR
C21_StatusIsMonotonic ==
  [][\A id \in IdsOf(storedErrors) :
        /\ "completed" \in StatusesOf(storedErrors, id)
              => StatusesOf(storedErrors', id) \subseteq {"completed"}
        /\ ("failed" \in StatusesOf(storedErrors, id) /\ ~Resubmitted(heap', id))
              => StatusesOf(storedErrors', id) \subseteq {"failed"}]_vars


----------------------------------------------------------------------------
(* Ingestion of well-formed and malformed ERROR_CAPTURED messages *)

\* no payload, and payloads with some of the fields
MalformedInputs ==
  {NoPayload, [message |-> <<65, 97>>], [type |-> <<101>>, lineno |-> 1]}

IngestNext ==
  \/ Tick(RATE_LIMIT_MS) /\ UNCHANGED <<bgVars, pageVars>>
  \/ \E errorData \in ErrorInputs \cup MalformedInputs :
        nCaptured < MaxCaptured /\ ErrorCaptured(errorData) /\ UNCHANGED <<now, pageVars>>
  \/ Continuations

IngestSpec == Init /\ [][IngestNext]_vars

\* C22: no ERROR_CAPTURED message makes the handler throw: the last request
\* that finished was answered with a result
C22_IngestionNeverRaises == lastResponse.kind # "rejected"


----------------------------------------------------------------------------
(* Delivery failures of the content script *)

\* C24: whether sendMessage throws or its promise rejects, the page sees no
\* exception of the transport, and the message is not sent a second time:
\* the channel gains a message only in a call of sendErrorToBackground that
\* reaches a working sendMessage
C24_DeliveryFailureIsDiscarded ==
  [][/\ pageSaw'.kind # "throw"
     /\ (SignalStep /\ lastSignal'.transport = "throws") => channel' = channel
     /\ ~SignalStep => Len(channel') <= Len(channel)]_vars

\* sendMessage has thrown in the last call, and nothing reached the page
C24_Witness ==
  /\ lastSignal.forwarded /\ lastSignal.transport = "throws"
  /\ lastSignal.time > StartTime
  /\ channel = <<>>
  /\ pageSaw = NothingSeen


----------------------------------------------------------------------------
(* The wrapped DOM operations and the wrapped fetch                          *)
(* One operation stands for each shape of wrapper: querySelector for the two *)
(* selector functions, appendChild for the four Node methods, innerHTML for  *)
(* the setter.  A response is slow or not ok, not both.                      *)

WrapClock == 60          \* the clock of WrapSpec runs this long

DomOps == {"querySelector", "appendChild", "innerHTML"}
WrappedOps == DomOps \cup {"fetch"}

\* the capture function that installs the wrapper of op
InstalledBy(op) ==
  IF op = "querySelector" THEN "dom" ELSE IF op = "fetch" THEN "fetch" ELSE "mutation"

\* what the native operation does: it returns, or it throws an exception object
DomOutcomes == {Returns("result"), Throws("DOMException")}

\* what the native fetch does: it resolves with a response, or rejects with
\* a TypeError, or with the reason given to AbortController.abort, which may
\* be any value
FetchSettlements ==
  {Returns("response 200"), Returns("slow response 200"), Returns("response 404"),
   Throws("TypeError"), Throws("abort reason 'timeout'"), Throws("abort reason null")}

\* error.message in the catch block: a property read of null or undefined throws
ReadingMessageThrows(error) == error = "abort reason null"

\* the errorData of each signal: type, message and filename make the key
WrapError(text) ==
  [type |-> <<100>>, message |-> text, filename |-> <<117>>, lineno |-> 0]

SignalOf(op, outcome) ==
  IF op = "querySelector" THEN WrapError(<<113>>)
  ELSE IF op = "appendChild" THEN WrapError(<<97>>)
  ELSE IF op = "innerHTML" THEN WrapError(<<105>>)
  ELSE IF outcome = Returns("slow response 200") THEN WrapError(<<115>>)
  ELSE IF outcome = Returns("response 404") THEN WrapError(<<52>>)
  ELSE WrapError(<<70>>)

\* lines 217-233 and 239: no signal for a quick response that is ok
IsSilent(op, outcome) ==
  outcome.kind = "return" /\ (op \in DomOps \/ outcome = Returns("response 200"))

\* `return response` of line 253 and `throw error` of lines 267, 377, 393,
\* 414, 434: what the wrapper passes on once the signal is out
PassedOn(outcome) == outcome

\* the page calls a wrapped operation and the original ends with outcome
WrappedCall(op, outcome, transport) ==
  /\ InstalledBy(op) \in installed
  /\ Len(channel) < MaxInFlight
  /\ IF IsSilent(op, outcome)
     THEN /\ pageSaw' = Saw(op, outcome, outcome)
          /\ UNCHANGED <<errorCount, lastErrorReset, recentErrors, channel,
                         lastSignal, lastForward, window, observed, nTicks, gateVars>>
     ELSE IF outcome.kind = "throw" /\ op = "fetch" /\ ReadingMessageThrows(outcome.value)
     THEN /\ pageSaw' = Saw(op, outcome, Throws("TypeError: Cannot read properties of null"))
          /\ UNCHANGED <<errorCount, lastErrorReset, recentErrors, channel,
                         lastSignal, lastForward, window, observed, nTicks, gateVars>>
     ELSE /\ sendErrorToBackground(SignalOf(op, outcome), transport)
          /\ pageSaw' = Saw(op, outcome,
                            IF SendEnds(transport).kind = "throw"
                            THEN SendEnds(transport) ELSE PassedOn(outcome))
  /\ UNCHANGED <<now, bgVars>>

WrapNext ==
  \/ TickWithin(WrapClock, WrapClock) /\ UNCHANGED <<bgVars, pageVars>>
  \/ \E op \in DomOps, outcome \in DomOutcomes, transport \in Transports :
        WrappedCall(op, outcome, transport)
  \/ \E outcome \in FetchSettlements, transport \in Transports :
        WrappedCall("fetch", outcome, transport)
  \/ SendRejected /\ UNCHANGED <<now, bgVars>>

WrapSpec == Init /\ [][WrapNext]_vars

\* C23: the page gets from a wrapped operation what the original gave: the
\* same value, or the same error, thrown after sendErrorToBackground was called
C23_WrapperKeepsOutcome ==
  [][(pageSaw' # pageSaw /\ pageSaw'.op \in WrappedOps) =>
        /\ pageSaw'.kind = pageSaw'.original.kind
        /\ pageSaw'.value = pageSaw'.original.value
        /\ pageSaw'.kind = "throw" => SignalStep]_vars


----------------------------------------------------------------------------
(* Repeated evaluation of the script file in one page *)

\* C25: however often the file is evaluated and however the runs interleave
\* with the domain check, no capture is put in place more than once, and the
\* installed set is exactly what has been put in place
C25_InstalledAtMostOnce ==
  /\ \A p \in AllCapture : injections.layers[p] <= 1
  /\ installed = {p \in AllCapture : injections.layers[p] = 1}

\* the file has been evaluated three times and every capture is in place once
C25_Witness ==
  /\ injections.runs = MaxRuns
  /\ installed = AllCapture
  /\ \A p \in AllCapture : injections.layers[p] = 1


----------------------------------------------------------------------------
(* The console wrappers, content.js lines 82-134 *)

\* '[Debug Buddy]'
DEBUG_BUDDY_PREFIX == <<91, 68, 101, 98, 117, 103, 32, 66, 117, 100, 100, 121, 93>>

\* String.prototype.startsWith
StartsWith(str, prefix) ==
  Len(str) >= Len(prefix) /\ SubSeq(str, 1, Len(prefix)) = prefix

\* a wrapper that captures its own log lines too
IsOwnLog_Never(first) == FALSE

\* line 98: args[0]?.toString().startsWith(DEBUG_BUDDY_PREFIX)
IsOwnLog(first) == StartsWith(first, DEBUG_BUDDY_PREFIX)

\* first arguments: the marker, the marker with text behind it, the marker
\* behind other text, and the marker in lower case
ConsoleArguments ==
  {DEBUG_BUDDY_PREFIX,
   DEBUG_BUDDY_PREFIX \o <<32, 120>>,
   <<120>> \o DEBUG_BUDDY_PREFIX,
   <<91, 100, 101, 98, 117, 103, 32, 98, 117, 100, 100, 121, 93>>}

\* 'error' for console.error, 'warning' for console.warn (lines 88, 93)
ConsoleLevels == {<<101>>, <<119>>}

\* lines 86-95 and 97-134: the original is called, then the message is
\* captured unless it is one of the script's own
ConsoleCall(level, first, transport) ==
  /\ "console" \in installed
  /\ Len(channel) < MaxInFlight
  /\ IF IsOwnLog(first)
     THEN /\ pageSaw' = Saw("console", [kind |-> "argument", value |-> first],
                            Returns("undefined"))
          /\ UNCHANGED <<errorCount, lastErrorReset, recentErrors, channel,
                         lastSignal, lastForward, window, observed, nTicks, gateVars>>
     ELSE /\ sendErrorToBackground(
                [type |-> level, message |-> first, filename |-> <<>>, lineno |-> 0],
                transport)
          /\ pageSaw' = Saw("console", [kind |-> "argument", value |-> first],
                            SendEnds(transport))
  /\ UNCHANGED <<now, bgVars>>

ConsoleNext ==
  \/ TickWithin(WrapClock, WrapClock) /\ UNCHANGED <<bgVars, pageVars>>
  \/ \E level \in ConsoleLevels, first \in ConsoleArguments, transport \in Transports :
        ConsoleCall(level, first, transport)
  \/ SendRejected /\ UNCHANGED <<now, bgVars>>

ConsoleSpec == Init /\ [][ConsoleNext]_vars

\* the step is a console call whose first argument starts with the marker
MarkedConsoleCall ==
  /\ pageSaw'.op = "console"
  /\ StartsWith(pageSaw'.original.value, DEBUG_BUDDY_PREFIX)
  /\ now' = now
  /\ Len(channel') >= Len(channel)

\* C26: a console.error or console.warn call whose first argument starts
\* with '[Debug Buddy]' calls sendErrorToBackground not at all, so that no
\* event is sent
C26_OwnLogsAreNotCaptured ==
  [][MarkedConsoleCall =>
        /\ lastSignal' = lastSignal
        /\ channel' = channel
        /\ recentErrors' = recentErrors
        /\ errorCount' = errorCount]_vars

\* after a captured console message, a line with the marker and text behind
\* it has gone through the wrapper without a trace
C26_Witness ==
  /\ pageSaw.op = "console"
  /\ pageSaw.original.value = DEBUG_BUDDY_PREFIX \o <<32, 120>>
  /\ lastSignal.forwarded
  /\ errorCount = 1


----------------------------------------------------------------------------
(* The settings: what the panel stores and what GET_CONFIG answers          *)

\* String.prototype.slice(start) for a start counted from either end
Slice(str, start) ==
  LET from == IF start < 0
              THEN (IF Len(str) + start < 0 THEN 0 ELSE Len(str) + start)
              ELSE (IF start > Len(str) THEN Len(str) ELSE start)
  IN  SubSeq(str, from + 1, Len(str))

\* whether part occurs in text
Contains(text, part) ==
  \E i \in 0 .. (Len(text) - Len(part)) : SubSeq(text, i + 1, i + Len(part)) = part

\* '****'
Stars == <<42, 42, 42, 42>>

\* lines 446-453: the config object of the GET_CONFIG answer (null is written
\* <<>>; the stored domains and enabled are always present here)
GetConfig(key, doms, on) ==
  [apiKey    |-> IF key # <<>> THEN Stars \o Slice(key, -4) ELSE <<>>,
   hasApiKey |-> key # <<>> /\ key # YOUR_API_KEY_HERE,
   domains   |-> doms,
   enabled   |-> on]

\* what the user can leave in the key field (trimmed): nothing, the key
\* "sk-ant", the four characters "abcd", the three characters "key", and the
\* placeholder itself
TypedKeys ==
  {<<>>, SampleKey, <<97, 98, 99, 100>>, <<107, 101, 121>>, YOUR_API_KEY_HERE}

\* the lists the domains field can give after split, trim and filter
TypedDomains == {<<>>, DEFAULT_DOMAINS}

\* sidepanel.js saveSettings: the three values are written together
SaveSettings(typed, doms, on) ==
  /\ apiKey' = IF typed # <<>> THEN typed ELSE YOUR_API_KEY_HERE
  /\ domains' = IF Len(doms) > 0 THEN doms
                ELSE <<DEFAULT_DOMAINS[1], DEFAULT_DOMAINS[2]>>
  /\ enabled' = on
  /\ UNCHANGED <<now, storedErrors, heap, errorCache, analysisQueue,
                 isProcessingQueue, lastApiCallTime, captures, workers, clears,
                 notes, lastResponse, lastErrorId, fetchStarts, removed,
                 nCaptured, nResubmitted, nCleared, throttleVars, host, injected,
                 bootstrap, gateAnswer, isEnabledForDomain, installed, injections,
                 panel>>

\* lines 94-95 and 443-455: GET_CONFIG is answered from chrome.storage.sync
GetConfigMessage ==
  /\ lastResponse' = [kind |-> "config", id |-> <<>>,
                      config |-> GetConfig(apiKey, domains, enabled)]
  /\ UNCHANGED <<now, storedErrors, apiKey, heap, errorCache, analysisQueue,
                 isProcessingQueue, lastApiCallTime, captures, workers, clears,
                 notes, lastErrorId, fetchStarts, removed, nCaptured,
                 nResubmitted, nCleared, pageVars>>

ConfigInit ==
  now = StartTime /\ BgInitWith(<<>>, TypedKeys) /\ PageInit /\ GatePassed

ConfigNext ==
  \/ \E typed \in TypedKeys, doms \in TypedDomains, on \in BOOLEAN :
        SaveSettings(typed, doms, on)
  \/ GetConfigMessage

ConfigSpec == ConfigInit /\ [][ConfigNext]_vars

\* C27: the answer to GET_CONFIG never contains the complete stored key
C27_AnswerNeverHoldsTheKey ==
  [][(lastResponse'.kind = "config" /\ lastResponse' # lastResponse /\ apiKey # <<>>)
       => ~Contains(lastResponse'.config.apiKey, apiKey)]_vars


----------------------------------------------------------------------------
(* A clear while an analysis is in flight                                   *)

\* the analysis of o was queued or running when the last clear began, that
\* clear has finished and has taken o's event out of the log
ClearedInFlight(o) ==
  /\ clears = 0
  /\ heap[o].atClear \in {"pending", "analyzing"}
  /\ heap[o].id \in removed

\* C28: when the analysis of an event cleared in flight completes or fails,
\* the result is put into errorCache, where the event is held again, while the
\* persisted log does not hold it
C28_ClearedEventReappearsInCacheOnly ==
  [][\A o \in 1 .. Len(heap) :
       (/\ ClearedInFlight(o)
        /\ heap[o].status = "analyzing"
        /\ heap'[o].status \in {"completed", "failed"})
       => /\ heap[o].id \in DOMAIN errorCache'
          /\ errorCache'[heap[o].id] = o
          /\ heap[o].id \notin IdsOf(storedErrors')]_vars


----------------------------------------------------------------------------
(* The log at rest                                                          *)

\* nothing is queued, no analysis runs and no storage operation is pending
Quiescent ==
  analysisQueue = <<>> /\ workers = <<>> /\ captures = <<>> /\ clears = 0

\* C29: at rest, with saves and updates as the only storage writers (no clear
\* and no re-submission took place), every persisted record has the status and
\* the analysis of the record errorCache holds for its id, and none is left
\* pending or analyzing
C29_LogAgreesAtRest ==
  (Quiescent /\ nCleared = 0 /\ nResubmitted = 0) =>
     \A i \in 1 .. Len(storedErrors) :
        LET r == storedErrors[i]
        IN  r.id \in DOMAIN errorCache =>
               /\ r.status = heap[errorCache[r.id]].status
               /\ r.analysis = heap[errorCache[r.id]].analysis
               /\ r.status \notin {"pending", "analyzing"}


----------------------------------------------------------------------------
(* Storage operations that fail during an analysis                          *)

\* the message of the error chrome.storage rejects with
StorageError == "QUOTA_BYTES quota exceeded"

\* The storage operation worker w awaits rejects.  Inside the try block
\* (line 267, line 311) the catch of lines 321-333 takes it: the record is
\* failed and the update is tried again.  At line 258 (before the try) and at
\* line 333 (inside the catch) the rejection leaves analyzeError and then
\* processQueue, whose loop and whose line 249 are never reached again.
StorageFails(w) ==
  LET k == workers[w]
      inTry == \/ k.pc = "get_key"
               \/ /\ k.pc \in {"update2_get", "update2_set"}
                  /\ heap[k.obj].status = "completed"
  IN  /\ k.pc \in {"update1_get", "update1_set", "get_key", "update2_get", "update2_set"}
      /\ IF inTry
         THEN /\ heap' = Failed(heap, k.obj, StorageError)
              /\ errorCache' = MapSet(errorCache, heap[k.obj].id, k.obj)
              /\ workers' = ReplaceAt(workers, w,
                               [k EXCEPT !.pc = "update2_get", !.write = <<>>])
         ELSE /\ workers' = RemoveAt(workers, w)
              /\ UNCHANGED <<heap, errorCache>>
      /\ UNCHANGED <<storedErrors, apiKey, analysisQueue, isProcessingQueue,
                     lastApiCallTime, captures, clears, notes, lastResponse,
                     fetchStarts, removed, lastErrorId, nCaptured, nResubmitted,
                     nCleared>>

StorageNext ==
  \/ Next
  \/ \E w \in 1 .. Len(workers) : StorageFails(w) /\ UNCHANGED <<now, pageVars>>

StorageSpec == Init /\ [][StorageNext]_vars

\* C30: a worker of processQueue is running whenever the queue is not empty,
\* and whenever isProcessingQueue is set
C30_NoLostWakeUp ==
  /\ analysisQueue # <<>> => workers # <<>>
  /\ isProcessingQueue => workers # <<>>


----------------------------------------------------------------------------
(* The order of the steps of ingestion                                      *)

\* the last notification sent
LastNote(ns) == ns[Len(ns)]

----------------------------------------------------------------------------
(* The order of the persisted log                                           *)

\* the records ERROR_CAPTURED created, in the order the messages arrived
Arrived(id) == {o \in 1 .. Len(heap) : heap[o].origin = "captured" /\ heap[o].id = id}

\* C32: of two events in the persisted log, the one whose ERROR_CAPTURED
\* arrived later stands first (no clear took place, so an id is one event)
C32_LogIsNewestFirst ==
  nCleared = 0 =>
     \A i, j \in 1 .. Len(storedErrors) :
        i < j => \A a \in Arrived(storedErrors[i].id), b \in Arrived(storedErrors[j].id) :
                    a > b


----------------------------------------------------------------------------
(* The order of the notifications of one event                              *)

IsPrefix(s, t) == Len(s) <= Len(t) /\ SubSeq(t, 1, Len(s)) = s

\* the types of the notifications sent for id, in the order they were sent
NoteTypes(id) ==
  LET about(n) == n.id = id
      sel == SelectSeq(notes, about)
  IN  [i \in 1 .. Len(sel) |-> sel[i].type]

\* C33: for every event (an id captured once) whose ingestion has returned,
\* the notifications sent so far are NEW_ERROR and then, for each analysis of
\* it, ERROR_STATUS_UPDATED followed by one of ANALYSIS_COMPLETED and
\* ANALYSIS_FAILED; and while the external call of an analysis is out, the
\* status update is the last notification sent for the event
C33_NotesFollowTransitions ==
  \A o \in 1 .. Len(heap) :
     (/\ heap[o].origin = "captured"
      /\ Arrived(heap[o].id) = {o}
      /\ \A c \in 1 .. Len(captures) : captures[c].obj # o) =>
        LET types == NoteTypes(heap[o].id)
        IN  /\ Len(types) >= 1 /\ types[1] = "NEW_ERROR"
            /\ \A i \in 2 .. Len(types) :
                  IF i % 2 = 0 THEN types[i] = "ERROR_STATUS_UPDATED"
                  ELSE types[i] \in {"ANALYSIS_COMPLETED", "ANALYSIS_FAILED"}
            /\ \A w \in 1 .. Len(workers) :
                  (workers[w].pc = "fetch" /\ heap[workers[w].obj].id = heap[o].id)
                     => types[Len(types)] = "ERROR_STATUS_UPDATED"

\* an event was analysed twice: it failed, was submitted again, and the second
\* call is out
C33_Witness ==
  /\ Len(heap) >= 2 /\ heap[1].origin = "captured" /\ heap[1].status = "failed"
  /\ NoteTypes(heap[1].id) = <<"NEW_ERROR", "ERROR_STATUS_UPDATED",
                                "ANALYSIS_FAILED", "ERROR_STATUS_UPDATED">>
  /\ \E w \in 1 .. Len(workers) : workers[w].pc = "fetch"


\* C33 as stated: the notifications of an event are NEW_ERROR, one
\* ERROR_STATUS_UPDATED and one analysis result, once each
C33_OneResultPerEvent ==
  \A o \in 1 .. Len(heap) :
     (heap[o].origin = "captured" /\ Arrived(heap[o].id) = {o}) =>
        /\ \/ IsPrefix(NoteTypes(heap[o].id),
                       <<"NEW_ERROR", "ERROR_STATUS_UPDATED", "ANALYSIS_COMPLETED">>)
           \/ IsPrefix(NoteTypes(heap[o].id),
                       <<"NEW_ERROR", "ERROR_STATUS_UPDATED", "ANALYSIS_FAILED">>)
        /\ heap[o].fetchedAt > 0 => Len(NoteTypes(heap[o].id)) >= 2


----------------------------------------------------------------------------
(* The analysis field against the status                                    *)

\* C34: a record that is pending or analyzing, in memory or in the persisted
\* log, has analysis = null, and one that is completed or failed has an
\* analysis
C34_AnalysisOnlyWhenFinished ==
  /\ \A o \in 1 .. Len(heap) :
        heap[o].status \in {"pending", "analyzing"} <=> heap[o].analysis = NullAnalysis
  /\ \A i \in 1 .. Len(storedErrors) :
        storedErrors[i].status \in {"pending", "analyzing"}
           <=> storedErrors[i].analysis = NullAnalysis


----------------------------------------------------------------------------
(* The queue across a clear                                                 *)

MaxWaiting == 2          \* ERROR_CAPTURED messages of ClearSpec

\* a burst of different errors with CLEAR_ERRORS arriving at any point
ClearNext ==
  \/ TimerComesDue
  \/ nCaptured < MaxWaiting /\ ErrorCaptured(BurstError(nCaptured + 1))
       /\ UNCHANGED <<now, pageVars>>
  \/ Continuations
  \/ nCleared < MaxCleared /\ ClearStart /\ UNCHANGED <<now, pageVars>>
  \/ ClearSet /\ UNCHANGED <<now, pageVars>>

ClearSpec == Init /\ [][ClearNext]_vars

\* C35: no external call is started for a record that was waiting in
\* analysisQueue when the last CLEAR_ERRORS completed
C35_ClearedQueueIsNotAnalysed ==
  [][\A o \in 1 .. Len(heap) :
       (heap[o].waitingAtClear /\ heap[o].fetchedAt = 0) => heap'[o].fetchedAt = 0]_vars


----------------------------------------------------------------------------
(* The capture context of a record                                          *)

\* C36: the record ingestion makes of a message carries the timestamp the
\* page put into the message
C36_TimestampIsThePages ==
  [][(DeliverStep /\ Len(heap') = Len(heap) + 1)
       => heap'[Len(heap')].timestamp = Head(channel).timestamp]_vars


----------------------------------------------------------------------------
(* What a dropped signal leaves behind                                      *)

DropGap == 40            \* a repeat this soon after a signal is debounced

\* a burst of one error: repeats a moment after a signal, signals one
\* BurstPeriod apart, and pauses of a whole window
DropTicks == {DropGap, BurstPeriod, WINDOW_MS}

DropTick(d) ==
  /\ nTicks < MaxTicks
  /\ d # WINDOW_MS => lastSignal.time = now
  /\ TickWithin(d, RateClock)
  /\ nTicks' = nTicks + 1
  /\ UNCHANGED <<bgVars, errorCount, lastErrorReset, recentErrors, channel,
                 lastSignal, lastForward, window, observed, pageSaw, gateVars>>

DropNext ==
  \/ \E d \in DropTicks : DropTick(d)
  \/ Signal(OneError)
  \/ SendRejected /\ UNCHANGED <<now, bgVars>>

DropSpec == Init /\ [][DropNext]_vars

\* the count the checks of this call see, after lines 618-621
CountSeen == IF now - lastErrorReset > WINDOW_MS THEN 0 ELSE errorCount

\* the call is stopped at line 623
StoppedByCeiling == CountSeen >= MAX_ERRORS_PER_MINUTE

\* the call passes line 623 and is stopped at line 628
StoppedAsDuplicate ==
  LET errorKey == ErrorKey(lastSignal'.data)
  IN  /\ ~StoppedByCeiling
      /\ errorKey \in DOMAIN recentErrors
      /\ now - recentErrors[errorKey] < DEBOUNCE_MS

\* C37 as stated: a dropped signal changes no throttle state
C37_DropChangesNothing ==
  [][(SignalStep /\ ~lastSignal'.forwarded)
       => /\ errorCount' = errorCount
          /\ lastErrorReset' = lastErrorReset
          /\ recentErrors' = recentErrors]_vars

\* C37 amended: the window is rolled over first; then a signal at the ceiling
\* is dropped, duplicate or not, and leaves the duplicate map alone; a
\* duplicate below the ceiling is dropped, is not counted and does not refresh
\* its key's last-sent time
C37_DropAfterRollover ==
  [][SignalStep =>
       /\ lastErrorReset' = (IF now - lastErrorReset > WINDOW_MS THEN now
                             ELSE lastErrorReset)
       /\ StoppedByCeiling =>
            /\ ~lastSignal'.forwarded
            /\ recentErrors' = recentErrors
            /\ errorCount' = CountSeen
       /\ StoppedAsDuplicate =>
            /\ ~lastSignal'.forwarded
            /\ recentErrors' = recentErrors
            /\ errorCount' = CountSeen]_vars

\* a duplicate was dropped by the call that rolled the window over
C37_Witness ==
  /\ ~lastSignal.forwarded /\ lastSignal.time = now
  /\ lastErrorReset = now /\ now > StartTime
  /\ errorCount = 0


----------------------------------------------------------------------------
(* The size of the duplicate map under bursts of different errors           *)

MaxKeyTicks == 5         \* clock steps of KeySpec
KeyGap == 1              \* the shortest time between two calls

\* every forwarded signal is followed by a different error
NextError == BurstError(Cardinality(DOMAIN lastForward) + 1)

\* the clock moves by a millisecond or by a whole window, between bursts: when
\* the allowance of the minute is untouched, just opened, or used up
KeyTick(d) ==
  /\ nTicks < MaxKeyTicks
  /\ channel = <<>>
  /\ errorCount <= 1 \/ AtCeiling(errorCount)
  /\ now' = now + d
  /\ nTicks' = nTicks + 1
  /\ UNCHANGED <<bgVars, errorCount, lastErrorReset, recentErrors, channel,
                 lastSignal, lastForward, window, observed, pageSaw, gateVars>>

KeyNext ==
  \/ \E d \in {KeyGap, WINDOW_MS} : KeyTick(d)
  \/ /\ channel = <<>>
     /\ lastSignal.forwarded \/ lastSignal.time < now
     /\ CalledFromListener(NextError, "sent")
     /\ UNCHANGED <<now, bgVars>>
  \/ SendRejected /\ UNCHANGED <<now, bgVars>>

KeySpec == Init /\ [][KeyNext]_vars

\* C38: recentErrors never holds more than 100 keys
C38_MapStaysBounded == Cardinality(DOMAIN recentErrors) <= RECENT_MAX

\* the 101st key has just been added: the map was pruned down to the keys
\* of the last 10 s, which are some but not all of the others
C38_Witness ==
  /\ Cardinality(DOMAIN lastForward) = RECENT_MAX + 1
  /\ Cardinality(DOMAIN recentErrors) < RECENT_MAX
  /\ Cardinality(DOMAIN recentErrors) > 1


----------------------------------------------------------------------------
(* The working set against the cap of the log                               *)

\* the o-th of MAX_STORED_ERRORS events that were captured and analysed one
\* after another since the service worker started
WarmRecord(o) ==
  [NewRecord(OldRecord(MAX_STORED_ERRORS + 1 - o).id, "captured") EXCEPT
     !.status = "completed", !.analysis = ParsedAnalysis, !.queuedAt = o,
     !.startedAt = o, !.fetchedAt = o, !.httpStatus = 200]

\* the log is full and errorCache holds every record of it
WarmInit ==
  /\ now = StartTime
  /\ storedErrors = OldLog(MAX_STORED_ERRORS)
  /\ heap = [o \in 1 .. MAX_STORED_ERRORS |-> WarmRecord(o)]
  /\ errorCache = [id \in IdsOf(OldLog(MAX_STORED_ERRORS)) |->
                     CHOOSE o \in 1 .. MAX_STORED_ERRORS : WarmRecord(o).id = id]
  /\ apiKey = SampleKey
  /\ analysisQueue = <<>>
  /\ isProcessingQueue = FALSE
  /\ lastApiCallTime = 0
  /\ captures = <<>>
  /\ workers = <<>>
  /\ clears = 0
  /\ notes = <<>>
  /\ lastResponse = [kind |-> "none", id |-> <<>>]
  /\ lastErrorId = <<>>
  /\ fetchStarts = <<>>
  /\ removed = {}
  /\ nCaptured = 0
  /\ nResubmitted = 0
  /\ nCleared = 0
  /\ PageInit
  /\ GatePassed

WarmSpec == WarmInit /\ [][Next]_vars

\* C39: while no ingestion is under way and nothing was cleared, errorCache
\* holds at most MAX_STORED_ERRORS ids, none of them evicted from the log, and
\* each of them has a record in the log
C39_CacheFollowsTheLog ==
  (captures = <<>> /\ nCleared = 0) =>
     /\ Cardinality(DOMAIN errorCache) <= MAX_STORED_ERRORS
     /\ DOMAIN errorCache \cap removed = {}
     /\ DOMAIN errorCache \subseteq IdsOf(storedErrors)


----------------------------------------------------------------------------
(* The side panel: initialize() against the notifications                   *)

PanelEvents == 2         \* ERROR_CAPTURED messages of PanelSpec

\* what the panel shows of a record
Shown(rec) == [id |-> rec.id, status |-> rec.status]

ListOf(errors) == [i \in 1 .. Len(errors) |-> Shown(errors[i])]

\* part_000 lines 59-70 and part_001 lines 186-189: loadErrors() sends
\* GET_ERRORS and state.errors becomes the list read from storage
LoadErrors ==
  /\ panel.pc = "closed"
  /\ panel' = [pc |-> "loaded", errors |-> ListOf(storedErrors), registeredAt |-> 0]
  /\ lastResponse' = Response("errors", <<>>)
  /\ UNCHANGED <<now, storedErrors, apiKey, heap, errorCache, analysisQueue,
                 isProcessingQueue, lastApiCallTime, captures, workers, clears,
                 notes, lastErrorId, fetchStarts, removed, nCaptured,
                 nResubmitted, nCleared, throttleVars, domains, enabled, host,
                 injected, bootstrap, gateAnswer, isEnabledForDomain, installed,
                 injections>>

\* part_000 lines 53-55: loadConfig() has its answer to GET_CONFIG, and
\* setupMessageListener() registers the listener: the notifications sent up
\* to now had no receiving end
SetupMessageListener ==
  /\ panel.pc = "loaded"
  /\ panel' = [panel EXCEPT !.pc = "listening", !.registeredAt = Len(notes)]
  /\ lastResponse' = [kind |-> "config", id |-> <<>>,
                      config |-> GetConfig(apiKey, domains, enabled)]
  /\ UNCHANGED <<now, storedErrors, apiKey, heap, errorCache, analysisQueue,
                 isProcessingQueue, lastApiCallTime, captures, workers, clears,
                 notes, lastErrorId, fetchStarts, removed, nCaptured,
                 nResubmitted, nCleared, throttleVars, domains, enabled, host,
                 injected, bootstrap, gateAnswer, isEnabledForDomain, installed,
                 injections>>

\* part_000 lines 153-218: the listener's handlers, applied to state.errors
HandleNote(errors, note) ==
  LET other(e) == e.id # note.id
      found == {i \in 1 .. Len(errors) : errors[i].id = note.id}
      first == CHOOSE i \in found : \A j \in found : i <= j
  IN  IF note.type = "NEW_ERROR"
      THEN <<[id |-> note.id, status |-> note.status]>> \o SelectSeq(errors, other)
      ELSE IF note.type = "ERRORS_CLEARED" THEN <<>>
      ELSE IF found = {} THEN errors
      ELSE [errors EXCEPT ![first].status = note.status]

RECURSIVE Heard(_, _)
Heard(errors, n) ==
  IF n > Len(notes) THEN errors ELSE Heard(HandleNote(errors, notes[n]), n + 1)

\* state.errors once every notification sent so far has been handled
PanelList == Heard(panel.errors, panel.registeredAt + 1)

PanelNext ==
  \/ TimerComesDue
  \/ nCaptured < PanelEvents /\ ErrorCaptured(BurstError(nCaptured + 1))
       /\ UNCHANGED <<now, pageVars>>
  \/ Continuations
  \/ LoadErrors
  \/ SetupMessageListener

PanelSpec == Init /\ [][PanelNext]_vars

\* C40: with the panel initialized and the background at rest, the panel's
\* list is the persisted log, id by id and status by status
C40_PanelMatchesLog ==
  (panel.pc = "listening" /\ Quiescent) => PanelList = ListOf(storedErrors)

====
